---------------------------- MODULE Spec2Model ----------------------------
(***************************************************************************)
(* Model of the HMC kernel of pyro/infer/mcmc/hmc.py.                      *)
(*                                                                         *)
(* Tensors are abstracted as follows.                                      *)
(*  - A parameter state z is None, the empty mapping {} (no latent sites)  *)
(*    or one of four non-empty states ("positions"), one for each class of *)
(*    potential energy: finite, finite and 1000 higher, NaN, +infinity.    *)
(*  - Energies are IEEE floating-point scalars: a finite integer, NaN,     *)
(*    +infinity or -infinity, with IEEE addition and comparison.           *)
(*  - A probability p in [0,1] is kept as ceil(PScale * p); the uniform    *)
(*    variate takes the values 0/PScale .. (PScale-1)/PScale.              *)
(*  - The step size is a binary float 2^e of a format whose exponent       *)
(*    range is -FloatMaxExp .. FloatMaxExp; doubling past the range gives  *)
(*    +infinity, halving past it gives 0.0.                                *)
(***************************************************************************)
EXTENDS Integers, Sequences, FiniteSets, TLC

VARIABLES
    kernel,   \* the HMC object: its fields and its WarmupAdapter
    search,   \* position inside _find_reasonable_step_size's while loop
    call,     \* the last call made on the kernel: name, inputs, outcome
    run,      \* history of the current run (since the last setup())
    sites,    \* the sample sites (pyro.sample names) the last step drew from
    pair,     \* two HMC objects A and B of one process, and the last call on them
    calc,     \* the last operation on GaussianS / StudentT potentials and its result
    traj,     \* trajectory length and step size of a kernel, and num_steps as last read
    mom       \* the last momentum _sample_r built, with what it was built from

vars == <<kernel, search, call, run, sites, pair, calc, traj, mom>>

----------------------------------------------------------------------------
(* Bounds of the model *)

MaxSamples == 2        \* sample() calls made on one kernel object
MaxSetups == 1         \* setup() calls made on one kernel object
MaxWarmup == 1         \* largest warmup_steps given to setup()
PScale == 2            \* resolution of the uniform variate
FloatMaxExp == 1       \* exponent range of the step-size float format
MaxPairCalls == 6      \* calls made on the two kernel objects A and B together
MaxDim == 2            \* largest event dimension n of a potential
MaxBatch == 2          \* size of the batch dimension of a batched potential
MaxSeed == 2           \* number of value patterns of the tensors, less one
MaxStepQ == 8          \* largest step size, in quarters
MaxLengthQ == 4        \* largest trajectory_length given, in quarters
MaxNumSteps == 2       \* largest num_steps given to the constructor
MaxSites == 3          \* sites of a parameter state
MaxSiteSize == 2       \* elements of a non-scalar site

----------------------------------------------------------------------------
(* Optional values: Python's None *)

None == [tag |-> "None", v |-> 0]
Some(x) == [tag |-> "Some", v |-> x]
IsNone(o) == o.tag = "None"

(* Parameter states.  Z(0) is the empty mapping {}, Z(i), i >= 1, a state  *)
(* with at least one site.                                                 *)
EmptyZ == Some(0)
Z(i) == Some(i)
Positions == {Z(1), Z(2), Z(3), Z(4)}
NumSites(z) == IF z.v = 0 THEN 0 ELSE 1

----------------------------------------------------------------------------
(* IEEE floating-point scalars *)

Fin(n) == [kind |-> "fin", v |-> n]
NaN == [kind |-> "nan", v |-> 0]
PInf == [kind |-> "pinf", v |-> 0]
NInf == [kind |-> "ninf", v |-> 0]
NoneE == [kind |-> "None", v |-> 0]

torch_isnan(a) == a.kind = "nan"
IsFinite(a) == a.kind = "fin"

FNeg(a) ==
    CASE a.kind = "fin" -> Fin(0 - a.v)
      [] a.kind = "pinf" -> NInf
      [] a.kind = "ninf" -> PInf
      [] OTHER -> NaN

FAdd(a, b) ==
    CASE a.kind = "nan" \/ b.kind = "nan" -> NaN
      [] a.kind = "fin" /\ b.kind = "fin" -> Fin(a.v + b.v)
      [] a.kind = "pinf" /\ b.kind = "ninf" -> NaN
      [] a.kind = "ninf" /\ b.kind = "pinf" -> NaN
      [] a.kind = "fin" -> b
      [] OTHER -> a

FSub(a, b) == FAdd(a, FNeg(b))

\* a < b; FALSE when either is NaN
FLt(a, b) ==
    /\ a.kind # "nan"
    /\ b.kind # "nan"
    /\ \/ a.kind = "ninf" /\ b.kind # "ninf"
       \/ b.kind = "pinf" /\ a.kind # "pinf"
       \/ a.kind = "fin" /\ b.kind = "fin" /\ a.v < b.v

FGt(a, b) == FLt(b, a)

----------------------------------------------------------------------------
(* External collaborators *)

(* The injected potential function, a pure function of the parameter      *)
(* state.  The table holds a finite energy, an energy 1000 above it, NaN  *)
(* and +infinity.                                                         *)
potential_fn(z) ==
    CASE z.v = 0 -> Fin(0)
      [] z.v = 1 -> Fin(0)
      [] z.v = 2 -> Fin(1000)
      [] z.v = 3 -> NaN
      [] OTHER -> PInf

(* Momentum draws r ~ r_dist, identified by their kinetic energy          *)
(* 1/2 r^T M^-1 r, and the uniform draws rand ~ Uniform(0, 1).            *)
Momenta == {0, 1}
Uniforms == 0..(PScale - 1)

_kinetic_energy(r) == Fin(r)

_energy(z, r) == FAdd(_kinetic_energy(r), potential_fn(z))

----------------------------------------------------------------------------
(* Step sizes: 0.0, 2^e for e in -FloatMaxExp..FloatMaxExp, +infinity *)

StepFin(e) == [kind |-> "fin", e |-> e]
StepZero == [kind |-> "zero", e |-> 0]
StepInf == [kind |-> "inf", e |-> 0]

\* the step size, were the loop to leave it unscaled
KeepStep(step, direction) == step

\* step_size_scale * step_size, for step_size_scale = 2 ** direction
ScaleStep(step, direction) ==
    CASE step.kind # "fin" -> step
      [] direction = 1 ->
            IF step.e + 1 > FloatMaxExp THEN StepInf ELSE StepFin(step.e + 1)
      [] OTHER ->
            IF step.e - 1 < 0 - FloatMaxExp THEN StepZero ELSE StepFin(step.e - 1)

----------------------------------------------------------------------------
(* The WarmupAdapter (pyro.infer.mcmc.adaptation): step size, dual         *)
(* averaging accumulator, inverse mass matrix, Welford accumulator.        *)

\* WarmupAdapter(step_size, adapt_step_size=..., ...)
WarmupAdapter(step_size, adapt_step_size) ==
    [ step_size |-> step_size,
      adapt_step_size |-> adapt_step_size,
      warmup_steps |-> None,
      inverse_mass_matrix |-> "None",   \* also stands for r_dist
      dual_averaging |-> 0,             \* updates since the last reset
      welford |-> 0 ]                   \* samples in the accumulator

\* adapter.configure(warmup_steps, inv_mass_matrix=..., find_reasonable_step_size_fn=...)
AdapterConfigure(a, warmup_steps) ==
    [a EXCEPT !.warmup_steps = Some(warmup_steps),
              !.inverse_mass_matrix = "identity",
              !.welford = 0]

\* adapter.reset_step_size_adaptation: the found step size becomes the
\* initial point of dual averaging
AdapterResetStepSize(a, step_size) ==
    [a EXCEPT !.step_size = step_size, !.dual_averaging = 0]

----------------------------------------------------------------------------
(* The kernel object *)

NoKernel ==
    [ exists |-> FALSE, model |-> FALSE, potential_fn |-> FALSE,
      t |-> 0, accept_cnt |-> 0, num_diverging |-> 0,
      initial_params |-> None, z_last |-> None,
      potential_energy_last |-> NoneE, z_grads_last |-> None,
      warmup_steps |-> None,
      adapter |-> WarmupAdapter(StepFin(0), FALSE) ]

\* HMC._reset
_reset(k) ==
    [k EXCEPT !.t = 0,
              !.accept_cnt = 0,
              !.num_diverging = 0,
              !.initial_params = None,
              !.z_last = None,
              !.potential_energy_last = NoneE,
              !.z_grads_last = None,
              !.warmup_steps = None]

\* the check, were it to reject only a kernel given neither
ConfigNotEmpty(model, potential) == model \/ potential

\* the check of HMC.__init__'s first statement
ConfigIsValid(model, potential) == (~model) # (~potential)

\* HMC.__init__: the result of the constructor call
HMC_init(model, potential, step_size, adapt_step_size) ==
    IF ~ConfigIsValid(model, potential)
    THEN [raised |-> TRUE, k |-> NoKernel]
    ELSE [raised |-> FALSE,
          k |-> [_reset(NoKernel) EXCEPT
                    !.exists = TRUE,
                    !.model = model,
                    !.potential_fn = potential,
                    !.adapter = WarmupAdapter(step_size, adapt_step_size)]]

----------------------------------------------------------------------------
(* Cache of the last accepted state *)

\* the cache, were the gradient never kept
CacheWithoutGrads(k, z, potential_energy, z_grads) ==
    [k EXCEPT !.z_last = z,
              !.potential_energy_last = potential_energy,
              !.z_grads_last = None]

\* HMC._cache
_cache(k, z, potential_energy, z_grads) ==
    [k EXCEPT !.z_last = z,
              !.potential_energy_last = potential_energy,
              !.z_grads_last = z_grads]

\* HMC.clear_cache
clear_cache(k) ==
    [k EXCEPT !.z_last = None,
              !.potential_energy_last = NoneE,
              !.z_grads_last = None]

----------------------------------------------------------------------------
(* Leapfrog integration (pyro.ops.integrator.velocity_verlet): the         *)
(* proposals (z_new, kinetic energy of r_new) it can return from z with    *)
(* momentum r.  The gradient returned is the gradient at z_new and the     *)
(* potential energy returned is potential_fn(z_new).  An infinite step     *)
(* size gives an infinite or NaN momentum; a step size of 0.0 leaves       *)
(* (z, r) in place unless the gradient at z is not finite.                 *)
velocity_verlet(z, r, step_size) ==
    CASE step_size.kind = "inf" ->
            {[z |-> zn, ke |-> e] : zn \in Positions, e \in {PInf, NaN}}
      [] step_size.kind = "zero" ->
            {[z |-> z,
              ke |-> IF IsFinite(potential_fn(z)) THEN _kinetic_energy(r) ELSE NaN]}
      [] OTHER ->
            {[z |-> zn, ke |-> _kinetic_energy(m)] : zn \in Positions, m \in Momenta}

----------------------------------------------------------------------------
(* WarmupAdapter.step(t, z, accept_prob): dual averaging moves the step    *)
(* size toward the target acceptance probability (0.8); the Welford        *)
(* accumulator takes z; the mass matrix is recomputed at the end of the    *)
(* adaptation window.                                                      *)

\* accept_prob >= target_accept_prob (0.8), for accept_prob kept as ceil(PScale * p)
MeetsTarget(accept_prob) == IsFinite(accept_prob) /\ accept_prob.v * 5 >= PScale * 4

DualAveragingStep(step, accept_prob) ==
    CASE step.kind # "fin" -> step
      [] MeetsTarget(accept_prob) ->
            StepFin(IF step.e + 1 > FloatMaxExp THEN FloatMaxExp ELSE step.e + 1)
      [] OTHER ->
            StepFin(IF step.e - 1 < 0 - FloatMaxExp THEN 0 - FloatMaxExp ELSE step.e - 1)

AdapterStep(a, t, z, accept_prob) ==
    LET a1 == IF a.adapt_step_size
              THEN [a EXCEPT !.step_size = DualAveragingStep(a.step_size, accept_prob),
                             !.dual_averaging = a.dual_averaging + 1]
              ELSE a
    IN  IF Some(t + 1) = a.warmup_steps
        THEN [a1 EXCEPT !.inverse_mass_matrix = "adapted", !.welford = 0]
        ELSE [a1 EXCEPT !.welford = a.welford + 1]

----------------------------------------------------------------------------
(* HMC.sample *)

_max_sliced_energy == 1000

\* the energy difference, were NaN left in place
NanKept(delta_energy) == delta_energy

\* scalar_like(delta_energy, inf) if torch_isnan(delta_energy) else delta_energy
NanToInf(delta_energy) == IF torch_isnan(delta_energy) THEN PInf ELSE delta_energy

\* the divergence test, were it to count during warm-up too
IsDivergingAnyPhase(delta_energy, t, warmup_steps) ==
    FGt(delta_energy, Fin(_max_sliced_energy))

\* delta_energy > self._max_sliced_energy and self._t >= self._warmup_steps
IsDiverging(delta_energy, t, warmup_steps) ==
    FGt(delta_energy, Fin(_max_sliced_energy)) /\ t >= warmup_steps

\* (-delta_energy).exp().clamp(max=1.), kept as ceil(PScale * p); exp(-x)
\* is 0.0 for every x > 745 in binary64
AcceptProb(delta_energy) ==
    CASE delta_energy.kind = "nan" -> NaN
      [] delta_energy.kind = "pinf" -> Fin(0)
      [] delta_energy.kind = "ninf" -> Fin(PScale)
      [] delta_energy.v <= 0 -> Fin(PScale)
      [] delta_energy.v = 1 -> Fin((PScale * 368 + 999) \div 1000)
      [] delta_energy.v = 2 -> Fin((PScale * 136 + 999) \div 1000)
      [] delta_energy.v <= 745 -> Fin(1)
      [] OTHER -> Fin(0)

\* the Metropolis test, were it rand <= accept_prob
AcceptsLe(u, accept_prob) == ~FLt(accept_prob, Fin(u)) /\ ~torch_isnan(accept_prob)

\* rand < accept_prob, for rand = u / PScale
Accepts(u, accept_prob) == FLt(Fin(u), accept_prob)

\* the warm-up test, were it t <= warmup_steps
InWarmupLe(t, warmup_steps) == t <= warmup_steps

\* self._t < self._warmup_steps
InWarmup(t, warmup_steps) == t < warmup_steps

\* _sample_r and _kinetic_energy fail when the adapter has no r_dist, when
\* initial_params is None, and when initial_params has no site (the flat
\* draw is not consumed; torch.cat of an empty list)
_sample_r_raises(k) ==
    \/ k.adapter.inverse_mass_matrix = "None"
    \/ IsNone(k.initial_params)
    \/ NumSites(k.initial_params) = 0

\* the first branch of sample(), were the cache refilled from params on
\* every call
RefillAlways(k, params) == _cache(k, params, potential_fn(params), None)

\* the first branch of sample(): the cache is refilled from params
RefillCache(k, params) ==
    IF IsNone(k.z_last) THEN _cache(k, params, potential_fn(params), None) ELSE k

\* the early return of sample() is taken
ReturnsEarly(k) == ~IsNone(k.z_last) /\ NumSites(k.z_last) = 0

\* the early return, were it to leave t alone
EarlyReturnKeepsT(k) == [k EXCEPT !.accept_cnt = @ + 1]

\* the counters of the early return: one accepted step
EarlyReturn(k) == [k EXCEPT !.accept_cnt = @ + 1, !.t = @ + 1]

SampleRaised(k) ==
    [ k |-> k, raised |-> TRUE, early |-> FALSE, ret |-> None,
      delta_raw |-> NoneE, delta_energy |-> NoneE, accept_prob |-> NoneE,
      accepted |-> FALSE, adapted |-> FALSE, drew |-> FALSE ]

(* sample(params) with momentum draw r, integrator result prop and uniform *)
(* draw u.  Result: the kernel after the call, whether it raised, and what *)
(* the call computed.                                                      *)
sample(k, params, r, prop, u) ==
    LET k1 == RefillCache(k, params)
        z == k1.z_last
        energy_current == FAdd(_kinetic_energy(r), k1.potential_energy_last)
        potential_energy_new == potential_fn(prop.z)
        energy_proposal == FAdd(prop.ke, potential_energy_new)
        delta_raw == FSub(energy_proposal, energy_current)
        delta_energy == NanToInf(delta_raw)
        k2 == IF IsDiverging(delta_energy, k1.t, k1.warmup_steps.v)
              THEN [k1 EXCEPT !.num_diverging = @ + 1]
              ELSE k1
        accept_prob == AcceptProb(delta_energy)
        accepted == Accepts(u, accept_prob)
        k3 == IF accepted
              THEN _cache([k2 EXCEPT !.accept_cnt = @ + 1],
                          prop.z, potential_energy_new, Some(prop.z.v))
              ELSE k2
        z_out == IF accepted THEN prop.z ELSE z
        adapted == InWarmup(k3.t, k3.warmup_steps.v)
        k4 == IF adapted
              THEN [k3 EXCEPT !.adapter = AdapterStep(@, k3.t, z_out, accept_prob)]
              ELSE k3
    IN  CASE IsNone(k.z_last) /\ ~k.potential_fn ->     \* potential_fn is None
                SampleRaised(k)
          [] ReturnsEarly(k) ->
                [SampleRaised(k) EXCEPT
                    !.k = EarlyReturn(k),
                    !.raised = FALSE, !.early = TRUE, !.ret = params]
          [] _sample_r_raises(k1) -> SampleRaised(k1)
          [] IsNone(k1.warmup_steps) ->                 \* int < None
                [SampleRaised(k1) EXCEPT !.drew = TRUE]
          [] k1.adapter.step_size.kind = "zero" ->      \* num_steps divides by 0.0
                [SampleRaised(k1) EXCEPT !.drew = TRUE]
          [] OTHER ->
                [ k |-> [k4 EXCEPT !.t = @ + 1], raised |-> FALSE, early |-> FALSE,
                  ret |-> z_out, delta_raw |-> delta_raw,
                  delta_energy |-> delta_energy, accept_prob |-> accept_prob,
                  accepted |-> accepted, adapted |-> adapted, drew |-> TRUE ]

\* HMC.diagnostics: step size, accept_cnt / t, number of divergences
diagnostics(k) ==
    IF k.t = 0
    THEN [raised |-> TRUE, step_size |-> k.adapter.step_size,
          acc_num |-> 0, acc_den |-> 0, diverging |-> 0]
    ELSE [raised |-> FALSE, step_size |-> k.adapter.step_size,
          acc_num |-> k.accept_cnt, acc_den |-> k.t, diverging |-> k.num_diverging]

----------------------------------------------------------------------------
(* HMC.setup and the step-size search *)

\* HMC._initialize_model_properties: initialize_model gives the initial
\* parameters init and the potential function
_initialize_model_properties(k, init) ==
    [k EXCEPT !.potential_fn = TRUE,
              !.initial_params = IF IsNone(@) THEN init ELSE @]

\* setup() up to the call of self._cache, were it to begin with _reset()
SetupAfterReset(k, warmup_steps, init) ==
    LET k1 == [_reset(k) EXCEPT !.warmup_steps = Some(warmup_steps)]
        k2 == IF k.model THEN _initialize_model_properties(k1, init) ELSE k1
    IN  IF IsNone(k2.initial_params)
        THEN [raised |-> TRUE, k |-> k2]
        ELSE [raised |-> FALSE,
              k |-> _cache(k2, k2.initial_params, potential_fn(k2.initial_params), None)]

\* setup() up to the call of self._cache
SetupCache(k, warmup_steps, init) ==
    LET k1 == [k EXCEPT !.warmup_steps = Some(warmup_steps)]
        k2 == IF k.model THEN _initialize_model_properties(k1, init) ELSE k1
    IN  IF IsNone(k2.initial_params)
        THEN [raised |-> TRUE, k |-> k2]       \* potential_fn(None)
        ELSE [raised |-> FALSE,
              k |-> _cache(k2, k2.initial_params, potential_fn(k2.initial_params), None)]

\* HMC._initialize_adapter up to reset_step_size_adaptation
_initialize_adapter(k) ==
    [k EXCEPT !.adapter = AdapterConfigure(@, k.warmup_steps.v)]

\* setup() runs _initialize_adapter
NeedsAdapter(k) == NumSites(k.initial_params) > 0

\* 1 if self._direction_threshold < -delta_energy else -1.  The threshold
\* log(0.8) lies strictly between -1 and 0 and the finite energies are
\* integers: log(0.8) < x iff -1 < x.
Direction(delta_energy) == IF FLt(Fin(0 - 1), FNeg(delta_energy)) THEN 1 ELSE 0 - 1

\* energy_new - energy_current of one trial of _find_reasonable_step_size(z)
TrialDelta(z, r, prop) ==
    FSub(FAdd(prop.ke, potential_fn(prop.z)), FAdd(_kinetic_energy(r), potential_fn(z)))

\* no call of _find_reasonable_step_size is in progress
Idle == [pc |-> "idle", direction |-> 1, step_size |-> StepFin(0), parity |-> 0]

\* the entry of _find_reasonable_step_size: step_size = self.step_size
SearchEntry(k) == [Idle EXCEPT !.pc = "first", !.step_size = k.adapter.step_size]

\* _find_reasonable_step_size up to the while loop: the first trial fixes
\* the direction
SearchStart(s, k, r, prop) ==
    [s EXCEPT !.pc = "loop",
              !.direction = Direction(TrialDelta(k.initial_params, r, prop))]

\* one iteration of the while loop; the loop counter t is kept modulo 2
SearchIterate(s, k, r, prop) ==
    LET direction_new == Direction(TrialDelta(k.initial_params, r, prop))
    IN  [pc |-> IF direction_new = s.direction THEN "loop" ELSE "return",
         direction |-> s.direction,
         step_size |-> ScaleStep(s.step_size, s.direction),
         parity |-> 1 - s.parity]

\* the handing of the found step size to dual averaging (its iterate is
\* the log of the step size) fails for a step size of 0.0
ResetRaises(step_size) == step_size.kind = "zero"

----------------------------------------------------------------------------
(* The record of the last call and of the current run *)

NoCall ==
    [ op |-> "none", done |-> TRUE, raised |-> FALSE,
      params |-> None, u |-> 0, early |-> FALSE, ret |-> None,
      delta_raw |-> NoneE, delta_energy |-> NoneE, accept_prob |-> NoneE,
      accepted |-> FALSE, adapted |-> FALSE, drew |-> FALSE,
      model_arg |-> FALSE, potential_arg |-> FALSE ]

CallOf(op, raised) == [NoCall EXCEPT !.op = op, !.raised = raised]

NoRun ==
    [ setup_ok |-> FALSE,     \* setup() has returned and cleanup() was not called since
      fresh |-> FALSE,        \* setup() was called with t = 0
      adapt_log |-> <<>>,     \* the t of every adapter.step call since setup()
      samples |-> 0,          \* sample() calls that returned since setup()
      total_samples |-> 0,    \* sample() calls on this kernel object
      setups |-> 0 ]          \* setup() calls on this kernel object

\* the run record at a call of setup()
NewRun(r, fresh) ==
    [NoRun EXCEPT !.fresh = fresh, !.total_samples = r.total_samples,
                  !.setups = r.setups + 1]

----------------------------------------------------------------------------
(* The sample sites a step draws from (pyro.sample) *)

\* no draw
NoSites == <<>>

\* the two draws of a full step, the uniform variate first
UniformFirstSites == <<"rand_t", "r_t">>

\* a full step of sample(): the momentum "r_t=..." and then "rand_t=..."
FullStepSites == <<"r_t", "rand_t">>

\* one trial of _find_reasonable_step_size: the momentum "r_presample_..."
SearchSites == <<"r_presample">>

\* the sites of a sample() call with the given outcome: none up to the early
\* return, the momentum from _sample_r on, the uniform variate after the
\* integration
SampleSites(res) ==
    CASE ~res.drew -> NoSites
      [] res.raised -> <<"r_t">>
      [] OTHER -> FullStepSites

\* no call was made on either of the two kernels A and B
NoPair ==
    [ k |-> [i \in {"A", "B"} |-> NoKernel],
      n |-> 0,       \* calls made on the two kernels
      who |-> "none", op |-> "none" ]

----------------------------------------------------------------------------
(* Tensors (torch.Tensor) of pyro/ops/gaussian_sqrt.py and studentt.py: a  *)
(* shape and the value of one batch element (the batch elements of the     *)
(* tensors of the model are all equal).  A vector value is a sequence, a   *)
(* matrix value a sequence of rows.  Entries are integers.                 *)

Scalar(batch, x) == [shape |-> batch, v |-> x]
Vector(batch, v) == [shape |-> batch \o <<Len(v)>>, v |-> v]
Matrix(batch, r, c, m) == [shape |-> batch \o <<r, c>>, v |-> m]

\* t.dim()
Rank(t) == Len(t.shape)

\* t.size(-1) and t.size(-2)
Size1(t) == t.shape[Len(t.shape)]
Size2(t) == t.shape[Len(t.shape) - 1]

\* t.shape[:-e] and t.shape[-e:]
BatchDims(t, e) == SubSeq(t.shape, 1, Len(t.shape) - e)
EventDims(t, e) == SubSeq(t.shape, Len(t.shape) - e + 1, Len(t.shape))

\* number of elements of a shape
RECURSIVE Numel(_)
Numel(shape) == IF shape = <<>> THEN 1 ELSE Head(shape) * Numel(Tail(shape))

\* a shape padded on the left with ones to length n
LeftOnes(shape, n) == [i \in 1..(n - Len(shape)) |-> 1] \o shape

MaxOf(a, b) == IF a < b THEN b ELSE a

\* Tensor.expand(target): every dimension of the tensor, aligned to the
\* right of target, is the target's or is 1
CanExpand(shape, target) ==
    /\ Len(shape) <= Len(target)
    /\ \A i \in 1..Len(target) :
          LeftOnes(shape, Len(target))[i] \in {1, target[i]}

\* broadcast_shape of two shapes that can be broadcast
broadcast_shape(a, b) ==
    LET n == MaxOf(Len(a), Len(b))
    IN  [i \in 1..n |-> MaxOf(LeftOnes(a, n)[i], LeftOnes(b, n)[i])]

\* the outcome of a call: a result, or the exception raised
Ok(x) == [ok |-> TRUE, err |-> "", out |-> x]
Raised(e) == [ok |-> FALSE, err |-> e, out |-> <<>>]

\* no operation on a potential was made
NoCalc == [op |-> "none", args |-> <<>>, res |-> Raised("")]

\* no kernel was constructed for the trajectory settings
NoTraj ==
    [ op |-> "none", given |-> <<>>,
      trajectory_length |-> 0, step_size |-> 0, num_steps |-> 0 ]

\* _sample_r was not called
NoMomentum == [op |-> "none", params |-> <<>>, r_flat |-> <<>>, res |-> Raised("")]

----------------------------------------------------------------------------
(* Actions: one per call on the kernel *)

Init ==
    /\ kernel = NoKernel
    /\ search = Idle
    /\ call = NoCall
    /\ run = NoRun
    /\ sites = NoSites
    /\ pair = NoPair
    /\ calc = NoCalc
    /\ traj = NoTraj
    /\ mom = NoMomentum

\* HMC(model=..., potential_fn=..., step_size=1.), adapt_step_size=True
Construct ==
    /\ ~kernel.exists
    /\ \E model \in BOOLEAN, potential \in BOOLEAN :
         \E res \in {HMC_init(model, potential, StepFin(0), TRUE)} :
             /\ kernel' = res.k
             /\ call' = [CallOf("init", res.raised) EXCEPT
                            !.model_arg = model, !.potential_arg = potential]
    /\ run' = NoRun
    /\ sites' = NoSites
    /\ UNCHANGED <<search, pair, calc, traj, mom>>

\* kernel.initial_params = params, as the chain driver does before setup()
SetInitialParams ==
    /\ kernel.exists /\ search.pc = "idle"
    /\ IsNone(kernel.warmup_steps)
    /\ \E params \in {EmptyZ, Z(1)} :
         kernel' = [kernel EXCEPT !.initial_params = params]
    /\ call' = CallOf("initial_params", FALSE)
    /\ sites' = NoSites
    /\ UNCHANGED <<search, run, pair, calc, traj, mom>>

\* the initial parameters initialize_model gives to a setup() that asks
\* for them: no latent site, or one
InitGiven(k) ==
    IF k.model /\ IsNone(k.initial_params) THEN {EmptyZ, Z(1)} ELSE {k.initial_params}

\* setup(warmup_steps) that returns or raises without a step-size search
Setup ==
    /\ kernel.exists /\ search.pc = "idle"
    /\ run.setups < MaxSetups
    /\ \E warmup_steps \in 0..MaxWarmup, init \in InitGiven(kernel) :
         LET res == SetupCache(kernel, warmup_steps, init)
             k == IF ~res.raised /\ NeedsAdapter(res.k)
                  THEN _initialize_adapter(res.k)
                  ELSE res.k
         IN  /\ ~(~res.raised /\ NeedsAdapter(res.k) /\ k.adapter.adapt_step_size)
             /\ kernel' = k
             /\ call' = CallOf("setup", res.raised)
             /\ run' = [NewRun(run, kernel.t = 0) EXCEPT !.setup_ok = ~res.raised]
    /\ sites' = NoSites
    /\ UNCHANGED <<search, pair, calc, traj, mom>>

\* setup(warmup_steps) up to the while loop of _find_reasonable_step_size
SetupSearch ==
    /\ kernel.exists /\ search.pc = "idle"
    /\ run.setups < MaxSetups
    /\ \E warmup_steps \in 0..MaxWarmup, init \in InitGiven(kernel) :
         LET res == SetupCache(kernel, warmup_steps, init)
             k == _initialize_adapter(res.k)
         IN  /\ ~res.raised /\ NeedsAdapter(res.k) /\ k.adapter.adapt_step_size
             /\ kernel' = k
             /\ call' = [CallOf("setup", FALSE) EXCEPT !.done = FALSE]
             /\ run' = NewRun(run, kernel.t = 0)
             /\ search' = SearchEntry(k)
    /\ sites' = NoSites
    /\ UNCHANGED <<pair, calc, traj, mom>>

\* _find_reasonable_step_size: the trial before the while loop
FindStepFirst ==
    /\ search.pc = "first"
    /\ \E r \in Momenta :
         \E prop \in velocity_verlet(kernel.initial_params, r, search.step_size) :
            search' = SearchStart(search, kernel, r, prop)
    /\ sites' = SearchSites
    /\ UNCHANGED <<kernel, call, run, pair, calc, traj, mom>>

\* one iteration of the while loop; on exit, reset_step_size_adaptation
\* stores the step size and setup() returns
FindStep ==
    /\ search.pc = "loop"
    /\ LET step_size == ScaleStep(search.step_size, search.direction)
       IN  \E r \in Momenta :
             \E prop \in velocity_verlet(kernel.initial_params, r, step_size) :
                \E s \in {SearchIterate(search, kernel, r, prop)} :
                    IF s.pc = "loop"
                    THEN /\ search' = s
                         /\ UNCHANGED <<kernel, call, run>>
                    ELSE /\ search' = Idle
                         /\ kernel' = [kernel EXCEPT
                                !.adapter = AdapterResetStepSize(@, s.step_size)]
                         /\ call' = [call EXCEPT !.done = TRUE,
                                                 !.raised = ResetRaises(s.step_size)]
                         /\ run' = [run EXCEPT !.setup_ok = ~ResetRaises(s.step_size)]
    /\ sites' = SearchSites
    /\ UNCHANGED <<pair, calc, traj, mom>>

(* The params the chain driver gives to sample(): the previous return     *)
(* value, which is the cached state, or, after clear_cache(), any state of *)
(* the kernel's parameter space.                                           *)
ParamsGiven(k) ==
    CASE ~IsNone(k.z_last) -> {k.z_last}
      [] IsNone(k.initial_params) -> Positions \cup {EmptyZ}
      [] NumSites(k.initial_params) = 0 -> {EmptyZ}
      [] OTHER -> Positions

\* sample(params)
Sample ==
    /\ kernel.exists /\ search.pc = "idle"
    /\ run.total_samples < MaxSamples
    /\ \E params \in ParamsGiven(kernel), r \in Momenta, u \in Uniforms :
         \E prop \in velocity_verlet(RefillCache(kernel, params).z_last, r,
                                     kernel.adapter.step_size) :
            \E res \in {sample(kernel, params, r, prop, u)} :
                /\ kernel' = res.k
                /\ call' = [CallOf("sample", res.raised) EXCEPT
                               !.params = params, !.u = u, !.early = res.early,
                               !.ret = res.ret, !.delta_raw = res.delta_raw,
                               !.delta_energy = res.delta_energy,
                               !.accept_prob = res.accept_prob,
                               !.accepted = res.accepted, !.adapted = res.adapted,
                               !.drew = res.drew]
                /\ sites' = SampleSites(res)
                /\ run' = [run EXCEPT
                               !.samples = IF res.raised THEN @ ELSE @ + 1,
                               !.total_samples = @ + 1,
                               !.adapt_log = IF res.adapted THEN Append(@, kernel.t) ELSE @]
    /\ UNCHANGED <<search, pair, calc, traj, mom>>

\* clear_cache()
ClearCache ==
    /\ kernel.exists /\ search.pc = "idle"
    /\ kernel' = clear_cache(kernel)
    /\ call' = CallOf("clear_cache", FALSE)
    /\ sites' = NoSites
    /\ UNCHANGED <<search, run, pair, calc, traj, mom>>

\* cleanup()
Cleanup ==
    /\ kernel.exists /\ search.pc = "idle"
    /\ kernel' = _reset(kernel)
    /\ call' = CallOf("cleanup", FALSE)
    /\ run' = [run EXCEPT !.setup_ok = FALSE, !.fresh = FALSE,
                          !.adapt_log = <<>>, !.samples = 0]
    /\ sites' = NoSites
    /\ UNCHANGED <<search, pair, calc, traj, mom>>

\* diagnostics(): a query, no field is assigned
Diagnostics ==
    /\ kernel.exists /\ search.pc = "idle"
    /\ diagnostics(kernel) = diagnostics(kernel)
    /\ UNCHANGED vars

Next ==
    \/ Construct
    \/ SetInitialParams
    \/ Setup
    \/ SetupSearch
    \/ FindStepFirst
    \/ FindStep
    \/ Sample
    \/ ClearCache
    \/ Cleanup
    \/ Diagnostics

Spec == Init /\ [][Next]_vars

----------------------------------------------------------------------------
(* Properties of the kernel *)

\* this step is a call of sample(); call' holds what it was given and did
IsSample == run'.total_samples = run.total_samples + 1

\* this step is a call of sample() that returned past the early return
IsFullSample == IsSample /\ ~call'.raised /\ ~call'.early

\* the kernel has a parameter space with at least one site
NonEmptySpace(k) == ~IsNone(k.initial_params) /\ NumSites(k.initial_params) > 0

\* the cached triple
CacheOf(k) == <<k.z_last, k.potential_energy_last, k.z_grads_last>>

(* C1: in every state 0 <= accept_count <= t; a sample() call that        *)
(* returns (accepting, rejecting or returning early) adds exactly 1 to t   *)
(* and at most 1 to accept_count; after setup(), a sample() call made with *)
(* a populated cache returns.                                              *)
C1_Counters ==
    /\ [](0 <= kernel.accept_cnt /\ kernel.accept_cnt <= kernel.t)
    /\ [][ IsSample =>
            /\ ~call'.raised =>
                 /\ kernel'.t = kernel.t + 1
                 /\ kernel'.accept_cnt \in {kernel.accept_cnt, kernel.accept_cnt + 1}
            /\ run.setup_ok /\ ~IsNone(kernel.z_last) => ~call'.raised ]_vars

\* two sample() calls have returned, one accepting and then one rejecting
C1_Witness ==
    /\ call.op = "sample" /\ ~call.raised /\ ~call.accepted
    /\ kernel.t = 2 /\ kernel.accept_cnt = 1

\* the state a full sample() call started its trajectory from
StartOf(k, params) == RefillCache(k, params).z_last

(* C2 as claimed: a step whose energy difference is NaN is rejected (the   *)
(* state returned is the previous state, accept_count and the cache are    *)
(* unchanged) and the divergence counter is incremented.                   *)
C2_NaNStepAsClaimed ==
    [][ IsFullSample /\ torch_isnan(call'.delta_raw) =>
            /\ ~call'.accepted
            /\ call'.ret = StartOf(kernel, call'.params)
            /\ kernel'.accept_cnt = kernel.accept_cnt
            /\ CacheOf(kernel') = CacheOf(kernel)
            /\ kernel'.num_diverging = kernel.num_diverging + 1 ]_vars

(* C2, amended: after setup() on a non-empty parameter space sample()      *)
(* never raises; a step whose energy difference is NaN is rejected: the    *)
(* state returned is the state the step started from, accept_count is      *)
(* unchanged, the cache is unchanged (a cache that was empty on entry      *)
(* holds params, its energy and no gradient), and the divergence counter   *)
(* is incremented when warm-up has finished (t >= warmup_steps) and is     *)
(* unchanged during warm-up.                                               *)
C2_NaNStep ==
    [][ /\ IsSample /\ run.setup_ok /\ NonEmptySpace(kernel) => ~call'.raised
        /\ IsFullSample /\ torch_isnan(call'.delta_raw) =>
            /\ ~call'.accepted
            /\ call'.ret = StartOf(kernel, call'.params)
            /\ kernel'.accept_cnt = kernel.accept_cnt
            /\ CacheOf(kernel') = CacheOf(RefillCache(kernel, call'.params))
            /\ kernel'.num_diverging =
                 IF kernel.t >= kernel.warmup_steps.v
                 THEN kernel.num_diverging + 1
                 ELSE kernel.num_diverging ]_vars

\* a NaN step after warm-up: rejected and counted
C2_Witness ==
    /\ call.op = "sample" /\ ~call.raised /\ torch_isnan(call.delta_raw)
    /\ ~call.accepted /\ kernel.num_diverging = 1 /\ kernel.t = 2

CountsFromZero(log) == \A i \in 1..Len(log) : log[i] = i - 1

Min(a, b) == IF a < b THEN a ELSE b

C5_Divergence ==
    [][ IsFullSample =>
            /\ kernel'.num_diverging =
                 IF /\ FLt(Fin(1000), call'.delta_energy)
                    /\ kernel.t >= kernel.warmup_steps.v
                 THEN kernel.num_diverging + 1
                 ELSE kernel.num_diverging
            /\ FLt(Fin(1000), call'.delta_energy) => ~call'.accepted
            /\ FLt(call'.delta_energy, Fin(1)) => call'.accepted ]_vars

\* a finite delta_energy above 1000 met during warm-up: not counted
C5_Witness ==
    /\ call.op = "sample" /\ ~call.raised /\ call.adapted
    /\ call.delta_energy = Fin(1001) /\ kernel.num_diverging = 0

(* C6: on an empty parameter space, in every state reached after setup()  *)
(* (cache populated or cleared), sample(params) returns params, adds 1 to  *)
(* accept_count and to t, draws no momentum and does not fail.             *)
C6_EmptySpaceAccepts ==
    [][ /\ IsSample /\ run.setup_ok
        /\ kernel.initial_params = EmptyZ
        => /\ ~call'.raised
           /\ call'.ret = call'.params
           /\ kernel'.accept_cnt = kernel.accept_cnt + 1
           /\ kernel'.t = kernel.t + 1
           /\ ~call'.drew ]_vars

(* C7: the constructor raises iff model and potential_fn are both given or *)
(* both missing; after a raise there is no kernel object, otherwise there  *)
(* is one, with its counters at 0 and its cache empty.                     *)
C7_Construction ==
    call.op = "init" =>
        /\ call.raised <=> (call.model_arg = call.potential_arg)
        /\ call.raised => kernel = NoKernel
        /\ ~call.raised =>
              /\ kernel.exists
              /\ kernel.t = 0 /\ kernel.accept_cnt = 0 /\ kernel.num_diverging = 0
              /\ IsNone(kernel.z_last)

\* a construction with both model and potential_fn has raised
C7_Witness ==
    /\ call.op = "init" /\ call.raised
    /\ call.model_arg /\ call.potential_arg /\ ~kernel.exists

(* C8: in every state reached after setup(), whatever the number of        *)
(* sample() calls made since, diagnostics() returns (it does not raise)    *)
(* and its acceptance rate accept_cnt / t lies in [0, 1].                  *)
C8_DiagnosticsDefined ==
    run.setup_ok =>
        /\ ~diagnostics(kernel).raised
        /\ 0 <= diagnostics(kernel).acc_num
        /\ diagnostics(kernel).acc_num <= diagnostics(kernel).acc_den

\* the adapter as the constructor makes it
FreshAdapter == WarmupAdapter(StepFin(0), TRUE)

(* C9: the adapter state is created at setup() (before it the adapter is   *)
(* as constructed), no sample() call that starts with t >= warmup_steps    *)
(* changes it, and cleanup() discards it: after cleanup() the adapter      *)
(* holds no step size or mass matrix of the finished run.                  *)
C9_AdapterLifecycle ==
    [][ /\ IsFullSample /\ kernel.t >= kernel.warmup_steps.v
           => kernel'.adapter = kernel.adapter
        /\ call'.op = "cleanup" => kernel'.adapter = FreshAdapter ]_vars

(* C10: every call of _find_reasonable_step_size returns, and the step     *)
(* size it returns is positive.                                            *)
C10_SearchReturnsPositive ==
    /\ [](search.pc # "idle" => <>(search.pc = "idle"))
    /\ [][ search.pc = "loop" /\ search'.pc = "idle"
            => kernel'.adapter.step_size.kind # "zero" ]_vars

\* the while loop of the step-size search runs on while it is entered
FairSpec == Spec /\ WF_vars(FindStepFirst) /\ WF_vars(FindStep)

----------------------------------------------------------------------------
(* Two kernel objects in one process.  Every field hmc.py assigns is an    *)
(* attribute of self; A and B are HMC(model=..., adapt_step_size=False),   *)
(* whose setup() runs no step-size search.                                 *)

Kernels == {"A", "B"}

\* self.<field> = ... in a method called on kernel i, were the fields
\* attributes of the class
StoreShared(ks, i, k) == [j \in DOMAIN ks |-> k]

\* self.<field> = ... in a method called on kernel i: the fields are
\* attributes of the instance
Store(ks, i, k) == [ks EXCEPT ![i] = k]

\* HMC(model=..., adapt_step_size=False)
PairConstructResults == {HMC_init(TRUE, FALSE, StepFin(0), FALSE).k}

\* the kernel after setup(warmup_steps), for every warmup_steps and every
\* initial parameters initialize_model can give
PairSetupResults(k) ==
    { LET res == SetupCache(k, warmup_steps, init)
      IN  IF ~res.raised /\ NeedsAdapter(res.k)
          THEN _initialize_adapter(res.k)
          ELSE res.k
      : warmup_steps \in 0..MaxWarmup, init \in InitGiven(k) }

\* the kernel after sample(params), for every params the chain driver can
\* give and every outcome of the draws and of the integration
PairSampleResults(k) ==
    UNION { { sample(k, params, r, prop, u).k :
                prop \in velocity_verlet(RefillCache(k, params).z_last, r,
                                         k.adapter.step_size) }
            : params \in ParamsGiven(k), r \in Momenta, u \in Uniforms }

\* every state the call op on a kernel in state k can leave that kernel in,
\* no other kernel being looked at
SoloNext(op, k) ==
    CASE op = "init" -> PairConstructResults
      [] op = "setup" -> PairSetupResults(k)
      [] op = "sample" -> PairSampleResults(k)
      [] op = "clear_cache" -> {clear_cache(k)}
      [] op = "cleanup" -> {_reset(k)}

\* the record of a call op on kernel i that leaves it in state k
PairCall(i, op, k) ==
    [pair EXCEPT !.k = Store(pair.k, i, k), !.who = i, !.op = op, !.n = @ + 1]

PairConstruct(i) ==
    /\ ~pair.k[i].exists /\ pair.n < MaxPairCalls
    /\ \E k \in PairConstructResults : pair' = PairCall(i, "init", k)
    /\ UNCHANGED <<kernel, search, call, run, sites, calc, traj, mom>>

PairSetup(i) ==
    /\ pair.k[i].exists /\ pair.n < MaxPairCalls
    /\ \E k \in PairSetupResults(pair.k[i]) : pair' = PairCall(i, "setup", k)
    /\ UNCHANGED <<kernel, search, call, run, sites, calc, traj, mom>>

PairSample(i) ==
    /\ pair.k[i].exists /\ pair.n < MaxPairCalls
    /\ \E k \in PairSampleResults(pair.k[i]) : pair' = PairCall(i, "sample", k)
    /\ UNCHANGED <<kernel, search, call, run, sites, calc, traj, mom>>

PairClearCache(i) ==
    /\ pair.k[i].exists /\ pair.n < MaxPairCalls
    /\ pair' = PairCall(i, "clear_cache", clear_cache(pair.k[i]))
    /\ UNCHANGED <<kernel, search, call, run, sites, calc, traj, mom>>

PairCleanup(i) ==
    /\ pair.k[i].exists /\ pair.n < MaxPairCalls
    /\ pair' = PairCall(i, "cleanup", _reset(pair.k[i]))
    /\ UNCHANGED <<kernel, search, call, run, sites, calc, traj, mom>>

PairNext ==
    \E i \in Kernels :
        \/ PairConstruct(i)
        \/ PairSetup(i)
        \/ PairSample(i)
        \/ PairClearCache(i)
        \/ PairCleanup(i)

PairSpec == Init /\ [][PairNext]_vars

----------------------------------------------------------------------------
(* C12 as claimed: every sample() call that returns has drawn exactly      *)
(* twice, the momentum and then the uniform variate; any other draw is     *)
(* made inside the step-size search run from setup().                      *)
C12_TwoDrawsAsClaimed ==
    [][ /\ IsSample /\ ~call'.raised => sites' = <<"r_t", "rand_t">>
        /\ ~IsSample /\ sites' # <<>> =>
              search.pc \in {"first", "loop"} /\ call.op = "setup" ]_vars

(* C12, amended: a sample() call that returns past the early return of an  *)
(* empty parameter space has drawn exactly twice, the momentum and then    *)
(* the uniform variate; the early return draws nothing; any other draw is  *)
(* one momentum draw of a trial of the step-size search run from setup().  *)
C12_TwoDraws ==
    [][ /\ IsSample /\ ~call'.raised /\ ~call'.early => sites' = <<"r_t", "rand_t">>
        /\ IsSample /\ call'.early => sites' = <<>>
        /\ ~IsSample /\ sites' # <<>> =>
              /\ search.pc \in {"first", "loop"} /\ call.op = "setup"
              /\ sites' = <<"r_presample">> ]_vars

\* the second full step of a run has made its two draws
C12_Witness ==
    /\ call.op = "sample" /\ ~call.raised /\ ~call.early
    /\ sites = <<"r_t", "rand_t">> /\ kernel.t = 2

----------------------------------------------------------------------------
(* GaussianS of pyro/ops/gaussian_sqrt.py.  The field log_normalizer and   *)
(* the value of log_density are kept doubled, so that the halves of the    *)
(* source (-0.5 * ...) stay integers.                                      *)

RECURSIVE SumSeq(_)
SumSeq(v) == IF v = <<>> THEN 0 ELSE Head(v) + SumSeq(Tail(v))

Zeros(n) == [i \in 1..n |-> 0]

\* (a * b).sum(-1)
Dot(a, b) == SumSeq([i \in 1..Len(a) |-> a[i] * b[i]])

\* v.matmul(M) for a vector v and a matrix M of c columns
VecMat(v, M, c) == [j \in 1..c |-> SumSeq([i \in 1..Len(v) |-> v[i] * M[i][j]])]

\* M.matmul(v) for a matrix M and a vector v
MatVec(M, v) == [i \in 1..Len(M) |-> Dot(M[i], v)]

\* the value patterns of the tensors of the model: entries in -1 .. 1
SeedEntry(s, i, j) == (((s + 1) * i + (s + 2) * j) % 3) - 1
GVec(n, s) == [i \in 1..n |-> SeedEntry(s, i, 0)]
GMat(r, c, s) == [i \in 1..r |-> [j \in 1..c |-> SeedEntry(s, i, j)]]

\* GaussianS.__init__
GaussianS(log_normalizer, info_vec, prec_sqrt) ==
    IF /\ Rank(info_vec) >= 1
       /\ Rank(prec_sqrt) >= 2
       /\ EventDims(prec_sqrt, 2) = EventDims(info_vec, 1) \o EventDims(info_vec, 1)
    THEN Ok([log_normalizer |-> log_normalizer, info_vec |-> info_vec,
             prec_sqrt |-> prec_sqrt])
    ELSE Raised("AssertionError")

\* GaussianS.dim
dim(g) == Size1(g.info_vec)

\* GaussianS.batch_shape
batch_shape(g) ==
    broadcast_shape(broadcast_shape(g.log_normalizer.shape, BatchDims(g.info_vec, 1)),
                    BatchDims(g.prec_sqrt, 2))

\* GaussianS.precision: prec_sqrt @ prec_sqrt^T
precision(g) ==
    [i \in 1..Size2(g.prec_sqrt) |->
        [j \in 1..Size2(g.prec_sqrt) |-> Dot(g.prec_sqrt.v[i], g.prec_sqrt.v[j])]]

\* the instance invariants of a GaussianS
IsValidGaussianS(g) ==
    /\ g.info_vec.shape = batch_shape(g) \o <<dim(g)>>
    /\ g.prec_sqrt.shape = batch_shape(g) \o <<dim(g), dim(g)>>
    /\ Len(g.info_vec.v) = dim(g)
    /\ Len(g.prec_sqrt.v) = dim(g)
    /\ \A i \in 1..dim(g) : Len(g.prec_sqrt.v[i]) = dim(g)

\* the valid GaussianS inputs of the model
MkGaussianS(batch, n, s) ==
    [log_normalizer |-> Scalar(batch, 2 * s),
     info_vec |-> Vector(batch, GVec(n, s)),
     prec_sqrt |-> Matrix(batch, n, n, GMat(n, n, s))]

BatchShapes == {<<>>, <<MaxBatch>>}

Gaussians ==
    {MkGaussianS(b, n, s) : b \in BatchShapes, n \in 0..MaxDim, s \in 0..MaxSeed}

\* the point values of event size k
Values(k) == {Vector(<<>>, GVec(k, s)) : s \in 0..MaxSeed}

\* GaussianS.expand
expand(g, shape) ==
    LET n == dim(g)
    IN  IF /\ CanExpand(g.log_normalizer.shape, shape)
           /\ CanExpand(g.info_vec.shape, shape \o <<n>>)
           /\ CanExpand(g.prec_sqrt.shape, shape \o <<n, n>>)
        THEN GaussianS([g.log_normalizer EXCEPT !.shape = shape],
                       [g.info_vec EXCEPT !.shape = shape \o <<n>>],
                       [g.prec_sqrt EXCEPT !.shape = shape \o <<n, n>>])
        ELSE Raised("RuntimeError")

\* GaussianS.reshape
reshape(g, shape) ==
    LET n == dim(g)
    IN  IF /\ Numel(g.log_normalizer.shape) = Numel(shape)
           /\ Numel(g.info_vec.shape) = Numel(shape \o <<n>>)
           /\ Numel(g.prec_sqrt.shape) = Numel(shape \o <<n, n>>)
        THEN GaussianS([g.log_normalizer EXCEPT !.shape = shape],
                       [g.info_vec EXCEPT !.shape = shape \o <<n>>],
                       [g.prec_sqrt EXCEPT !.shape = shape \o <<n, n>>])
        ELSE Raised("RuntimeError")

\* t[index + (slice(None),) * e] for a tuple of integers index
CanIndex(t, index, e) ==
    /\ Len(index) + e <= Rank(t)
    /\ \A i \in 1..Len(index) : index[i] < t.shape[i]

Indexed(t, index) == [t EXCEPT !.shape = SubSeq(@, Len(index) + 1, Len(@))]

\* GaussianS.__getitem__
getitem(g, index) ==
    IF /\ CanIndex(g.log_normalizer, index, 0)
       /\ CanIndex(g.info_vec, index, 1)
       /\ CanIndex(g.prec_sqrt, index, 2)
    THEN GaussianS(Indexed(g.log_normalizer, index), Indexed(g.info_vec, index),
                   Indexed(g.prec_sqrt, index))
    ELSE Raised("IndexError")

\* torch.cat([a, b], dim=d), d counted from 0
CanCat(a, b, d) ==
    /\ 0 <= d /\ d < Rank(a) /\ Rank(a) = Rank(b)
    /\ \A i \in 1..Rank(a) : i # d + 1 => a.shape[i] = b.shape[i]

Catted(a, b, d) == [a EXCEPT !.shape[d + 1] = @ + b.shape[d + 1]]

\* GaussianS.cat of two parts
cat(g1, g2, d) ==
    LET d1 == IF d < 0 THEN d + Len(batch_shape(g1)) ELSE d
    IN  IF /\ CanCat(g1.log_normalizer, g2.log_normalizer, d1)
           /\ CanCat(g1.info_vec, g2.info_vec, d1)
           /\ CanCat(g1.prec_sqrt, g2.prec_sqrt, d1)
        THEN GaussianS(Catted(g1.log_normalizer, g2.log_normalizer, d1),
                       Catted(g1.info_vec, g2.info_vec, d1),
                       Catted(g1.prec_sqrt, g2.prec_sqrt, d1))
        ELSE Raised("RuntimeError")

\* torch.nn.functional.pad(t, (left, right)) of the last dimension of a
\* vector
PadVector(t, left, right) ==
    [shape |-> BatchDims(t, 1) \o <<Size1(t) + left + right>>,
     v |-> Zeros(left) \o t.v \o Zeros(right)]

\* pad(t, (left, right, 0, 0)) of a matrix: the last dimension (the columns)
\* is padded, the rows are not
PadColumns(t, left, right) ==
    [shape |-> BatchDims(t, 2) \o <<Size2(t), Size1(t) + left + right>>,
     v |-> [i \in 1..Len(t.v) |-> Zeros(left) \o t.v[i] \o Zeros(right)]]

\* GaussianS.event_pad
event_pad(g, left, right) ==
    GaussianS(g.log_normalizer,
              PadVector(g.info_vec, left, right),
              PadColumns(g.prec_sqrt, left, right))

\* GaussianS.event_permute, were it to return the permuted potential
event_permute_done(g, perm) ==
    GaussianS(g.log_normalizer,
              [g.info_vec EXCEPT !.v = [i \in 1..Len(perm) |-> g.info_vec.v[perm[i]]]],
              [g.prec_sqrt EXCEPT !.v = [i \in 1..Len(perm) |-> g.prec_sqrt.v[perm[i]]]])

\* GaussianS.event_permute: raise NotImplementedError is its first statement
event_permute(g, perm) == Raised("NotImplementedError")

\* GaussianS.__add__
add(g, other) ==
    LET a == PadColumns(g.prec_sqrt, 0, dim(other))
        b == PadColumns(other.prec_sqrt, dim(g), 0)
    IN  CASE dim(g) # dim(other) -> Raised("AssertionError")
          [] Size1(a) # Size1(b) -> Raised("RuntimeError")
          [] OTHER ->
              GaussianS(
                  [g.log_normalizer EXCEPT
                      !.shape = broadcast_shape(@, other.log_normalizer.shape),
                      !.v = @ + other.log_normalizer.v],
                  [g.info_vec EXCEPT
                      !.shape = broadcast_shape(@, other.info_vec.shape),
                      !.v = [i \in 1..Len(@) |-> @[i] + other.info_vec.v[i]]],
                  [a EXCEPT
                      !.shape = broadcast_shape(@, b.shape),
                      !.v = [i \in 1..Len(@) |->
                                [j \in 1..Size1(a) |-> @[i][j] + b.v[i][j]]]])

(* GaussianS.log_density of a potential with batch_shape () at a value of  *)
(* shape (k,): twice the number the source returns.                        *)
log_density(g, value) ==
    LET result1 == VecMat(value.v, g.prec_sqrt.v, Size1(g.prec_sqrt))
        \* twice (-0.5) * result.pow(2).sum(-1)
        result2 == 0 - Dot(result1, result1)
        \* twice result + self.info_vec: the scalar is added to every entry
        result3 == [i \in 1..dim(g) |-> result2 + 2 * g.info_vec.v[i]]
        \* (value * result).sum(-1)
        result4 == Dot(value.v, result3)
    IN  CASE Size1(value) = 0 -> Ok(g.log_normalizer.v)
          [] Size1(value) # Size2(g.prec_sqrt) -> Raised("RuntimeError")
          [] OTHER -> Ok(result4 + g.log_normalizer.v)

\* rows lo .. hi of a matrix tensor, and entries lo .. hi of a vector tensor
Rows(t, lo, hi) ==
    [shape |-> BatchDims(t, 2) \o <<MaxOf(hi - lo + 1, 0), Size1(t)>>,
     v |-> SubSeq(t.v, lo, hi)]

Slice(t, lo, hi) ==
    [shape |-> BatchDims(t, 1) \o <<MaxOf(hi - lo + 1, 0)>>, v |-> SubSeq(t.v, lo, hi)]

\* GaussianS.condition, for a potential with batch_shape () and a value of
\* shape (k,)
condition(g, value) ==
    LET n == dim(g) - Size1(value)
        info_a == Slice(g.info_vec, 1, n)
        info_b == Slice(g.info_vec, n + 1, dim(g))
        Psqrt_a == Rows(g.prec_sqrt, 1, n)
        Psqrt_b == Rows(g.prec_sqrt, n + 1, dim(g))
        b == value.v
        Psqrt_b_b == VecMat(b, Psqrt_b.v, Size1(Psqrt_b))
        Pa_Pbb == MatVec(Psqrt_a.v, Psqrt_b_b)
        info_vec == [info_a EXCEPT !.v = [i \in 1..Len(@) |-> @[i] - Pa_Pbb[i]]]
        \* twice the log_normalizer of the source
        log_normalizer == [g.log_normalizer EXCEPT
                              !.v = @ - Dot(Psqrt_b_b, Psqrt_b_b) + 2 * Dot(b, info_b.v)]
    IN  IF Size1(value) <= Size1(g.info_vec)
        THEN GaussianS(log_normalizer, info_vec, Psqrt_a)
        ELSE Raised("AssertionError")

\* the real-valued entries that marginalize computes by QR factorization
\* and triangular solves: not followed
Reals == "reals"

\* GaussianS.marginalize, for left + right <= dim()
marginalize(g, left, right) ==
    LET n == dim(g)
        Psqrt_a == Rows(g.prec_sqrt, left + 1, n - right)
        info_a == Slice(g.info_vec, left + 1, n - right)
    IN  CASE left = 0 /\ right = 0 -> Ok(g)
          [] left > 0 /\ right > 0 -> Raised("NotImplementedError")
          [] OTHER ->
              GaussianS([g.log_normalizer EXCEPT !.v = Reals],
                        [info_a EXCEPT !.v = Reals],
                        [Psqrt_a EXCEPT !.v = Reals])

\* gaussian_tensordotS
gaussian_tensordotS(x, y, dims) ==
    LET na == dim(x) - dims
        nb == dims
        nc == dim(y) - dims
        perm == [i \in 1..(na + nc + nb) |->
                    IF i <= na THEN i
                    ELSE IF i <= na + nc THEN dim(x) + (i - na)
                    ELSE na + (i - na - nc)]
        px == event_pad(x, 0, nc)
        py == event_pad(y, na, 0)
        sum == add(px.out, py.out)
        permuted == event_permute(sum.out, perm)
    IN  CASE ~(na >= 0 /\ nb >= 0 /\ nc >= 0) -> Raised("AssertionError")
          [] ~px.ok -> px
          [] ~py.ok -> py
          [] ~sum.ok -> sum
          [] ~permuted.ok -> permuted
          [] OTHER -> marginalize(permuted.out, 0, nb)

----------------------------------------------------------------------------
(* StudentT of pyro/ops/studentt.py *)

\* StudentT.__init__
StudentT(log_normalizer, info_vec, precision_, df, rank) ==
    IF /\ Rank(info_vec) >= 1
       /\ Rank(precision_) >= 2
       /\ EventDims(precision_, 2) = EventDims(info_vec, 1) \o EventDims(info_vec, 1)
    THEN Ok([log_normalizer |-> log_normalizer, info_vec |-> info_vec,
             precision |-> precision_, df |-> df, rank |-> rank])
    ELSE Raised("AssertionError")

\* the valid StudentT inputs of the model: precision S @ S^T, df >= 1,
\* rank = n
MkStudentT(batch, n, s) ==
    [log_normalizer |-> Scalar(batch, 2 * s),
     info_vec |-> Vector(batch, GVec(n, s)),
     precision |-> Matrix(batch, n, n, precision(MkGaussianS(batch, n, s))),
     df |-> Scalar(batch, s + 1),
     rank |-> Scalar(batch, n)]

StudentTs ==
    {MkStudentT(b, n, s) : b \in BatchShapes, n \in 0..MaxDim, s \in 0..MaxSeed}

\* the names the module studentt.py binds: its imports and its definitions
StudentTGlobals ==
    {"math", "torch", "lazy_property", "pad", "broadcast_shape", "Gamma",
     "absolute_central_moment_matching", "StudentT", "mvt_to_studentt",
     "matrix_and_mvt_to_studentt", "studentt_tensordot"}

\* StudentT.condition, for a potential with batch_shape () and a value of
\* shape (k,): its last statement calls GammaGaussian
st_condition(st, value) ==
    LET n == Size1(st.info_vec) - Size1(value)
        info_a == Slice(st.info_vec, 1, n)
        P_a == Rows(st.precision, 1, n)
        P_aa == [shape |-> BatchDims(P_a, 2) \o <<n, n>>,
                 v |-> [i \in 1..n |-> SubSeq(P_a.v[i], 1, n)]]
        P_ab_b == [i \in 1..n |->
                     Dot(SubSeq(P_a.v[i], n + 1, Size1(st.info_vec)), value.v)]
        info_vec == [info_a EXCEPT !.v = [i \in 1..Len(@) |-> @[i] - P_ab_b[i]]]
        df == [st.df EXCEPT !.v = @ + Size1(value)]
        rank == [st.rank EXCEPT !.v = @ - Size1(value)]
    IN  CASE ~(Size1(value) <= Size1(st.info_vec)) -> Raised("AssertionError")
          [] "GammaGaussian" \notin StudentTGlobals -> Raised("NameError")
          [] OTHER -> StudentT(st.log_normalizer, info_vec, P_aa, df, rank)

\* StudentT.marginalize up to the branch on left and right; past it the
\* source factorizes P_bb (cholesky) and then looks up GammaGaussian and beta
st_marginalize(st, left, right) ==
    CASE left = 0 /\ right = 0 -> {Ok(st)}
      [] left > 0 /\ right > 0 -> {Raised("NotImplementedError")}
      [] OTHER -> {Raised("RuntimeError"), Raised("NameError")}

----------------------------------------------------------------------------
(* Operations on potentials: one action per method, its inputs drawn from  *)
(* the valid potentials of the model.                                      *)

Calc(op, args, res) == [op |-> op, args |-> args, res |-> res]

Unbatched(S) == {g \in S : g.log_normalizer.shape = <<>>}

\* no call on a potential is in progress
NoCalcPending == calc.op = "none"

\* batch shapes given to expand and reshape
TargetShapes == {<<>>, <<1>>, <<MaxBatch>>, <<1, MaxBatch>>, <<MaxBatch, MaxBatch>>}

\* indices given to __getitem__; the last one is out of range
Indices == {<<>>, <<0>>, <<MaxBatch - 1>>, <<MaxBatch>>}

\* the identity and the reversal of 1 .. n
Perms(n) == {[i \in 1..n |-> i], [i \in 1..n |-> n + 1 - i]}

GExpand ==
    /\ NoCalcPending
    /\ \E g \in Gaussians, shape \in TargetShapes :
         calc' = Calc("expand", <<g, shape>>, expand(g, shape))
    /\ UNCHANGED <<kernel, search, call, run, sites, pair, traj, mom>>

GReshape ==
    /\ NoCalcPending
    /\ \E g \in Gaussians, shape \in TargetShapes :
         calc' = Calc("reshape", <<g, shape>>, reshape(g, shape))
    /\ UNCHANGED <<kernel, search, call, run, sites, pair, traj, mom>>

GIndex ==
    /\ NoCalcPending
    /\ \E g \in Gaussians, index \in Indices :
         calc' = Calc("index", <<g, index>>, getitem(g, index))
    /\ UNCHANGED <<kernel, search, call, run, sites, pair, traj, mom>>

GCat ==
    /\ NoCalcPending
    /\ \E g1 \in Gaussians, g2 \in Gaussians, d \in {0 - 1, 0} :
         /\ g1.info_vec.v = g2.info_vec.v /\ g1.prec_sqrt.v = g2.prec_sqrt.v
         /\ calc' = Calc("cat", <<g1, g2, d>>, cat(g1, g2, d))
    /\ UNCHANGED <<kernel, search, call, run, sites, pair, traj, mom>>

GEventPad ==
    /\ NoCalcPending
    /\ \E g \in Gaussians, left \in 0..MaxDim, right \in 0..MaxDim :
         calc' = Calc("event_pad", <<g, left, right>>, event_pad(g, left, right))
    /\ UNCHANGED <<kernel, search, call, run, sites, pair, traj, mom>>

GEventPermute ==
    /\ NoCalcPending
    /\ \E g \in Gaussians :
         \E perm \in Perms(dim(g)) :
            calc' = Calc("event_permute", <<g, perm>>, event_permute(g, perm))
    /\ UNCHANGED <<kernel, search, call, run, sites, pair, traj, mom>>

GAdd ==
    /\ NoCalcPending
    /\ \E g \in Gaussians, other \in Gaussians :
         /\ g.log_normalizer.shape = other.log_normalizer.shape
         /\ calc' = Calc("add", <<g, other>>, add(g, other))
    /\ UNCHANGED <<kernel, search, call, run, sites, pair, traj, mom>>

GLogDensity ==
    /\ NoCalcPending
    /\ \E g \in Unbatched(Gaussians) :
         \E value \in Values(dim(g)) :
            calc' = Calc("log_density", <<g, value>>, log_density(g, value))
    /\ UNCHANGED <<kernel, search, call, run, sites, pair, traj, mom>>

GCondition ==
    /\ NoCalcPending
    /\ \E g \in Unbatched(Gaussians), k \in 0..(MaxDim + 1) :
         \E value \in Values(k) :
            calc' = Calc("condition", <<g, value>>, condition(g, value))
    /\ UNCHANGED <<kernel, search, call, run, sites, pair, traj, mom>>

\* g.condition(x[..., k:]).log_density(x[..., :k])
GConditionLogDensity ==
    /\ NoCalcPending
    /\ \E g \in Unbatched(Gaussians) :
         \E x \in Values(dim(g)), k \in 0..dim(g) :
            \E c \in {condition(g, Slice(x, k + 1, dim(g)))} :
                calc' = Calc("condition_log_density", <<g, x, k>>,
                             IF c.ok THEN log_density(c.out, Slice(x, 1, k)) ELSE c)
    /\ UNCHANGED <<kernel, search, call, run, sites, pair, traj, mom>>

GMarginalize ==
    /\ NoCalcPending
    /\ \E g \in Gaussians, left \in 0..MaxDim, right \in 0..MaxDim :
         /\ (left > 0 /\ right > 0) \/ left + right <= dim(g)
         /\ calc' = Calc("marginalize", <<g, left, right>>, marginalize(g, left, right))
    /\ UNCHANGED <<kernel, search, call, run, sites, pair, traj, mom>>

GTensordot ==
    /\ NoCalcPending
    /\ \E x \in Gaussians, y \in Gaussians, dims \in 0..MaxDim :
         /\ x.log_normalizer.shape = y.log_normalizer.shape
         /\ calc' = Calc("tensordot", <<x, y, dims>>, gaussian_tensordotS(x, y, dims))
    /\ UNCHANGED <<kernel, search, call, run, sites, pair, traj, mom>>

StCondition ==
    /\ NoCalcPending
    /\ \E st \in Unbatched(StudentTs), k \in 0..(MaxDim + 1) :
         \E value \in Values(k) :
            calc' = Calc("st_condition", <<st, value>>, st_condition(st, value))
    /\ UNCHANGED <<kernel, search, call, run, sites, pair, traj, mom>>

StMarginalize ==
    /\ NoCalcPending
    /\ \E st \in StudentTs, left \in 0..MaxDim, right \in 0..MaxDim :
         /\ (left > 0 /\ right > 0) \/ left + right <= Size1(st.info_vec)
         /\ \E res \in st_marginalize(st, left, right) :
              calc' = Calc("st_marginalize", <<st, left, right>>, res)
    /\ UNCHANGED <<kernel, search, call, run, sites, pair, traj, mom>>

\* the attributes of a StudentT instance: those __init__ assigns and the
\* methods and properties of the class
StudentTAttributes ==
    {"log_normalizer", "info_vec", "precision", "df", "rank", "dim", "batch_shape",
     "expand", "reshape", "__getitem__", "cat", "event_pad", "event_permute",
     "nonexact_add", "log_density", "condition", "marginalize", "event_logsumexp"}

\* StudentT.batch_shape: it reads self.d_eff
st_batch_shape(st) ==
    IF "d_eff" \in StudentTAttributes
    THEN Ok(broadcast_shape(st.log_normalizer.shape, BatchDims(st.info_vec, 1)))
    ELSE Raised("AttributeError")

\* StudentT.expand
st_expand(st, shape) ==
    LET n == Size1(st.info_vec)
    IN  IF /\ CanExpand(st.log_normalizer.shape, shape)
           /\ CanExpand(st.info_vec.shape, shape \o <<n>>)
           /\ CanExpand(st.precision.shape, shape \o <<n, n>>)
           /\ CanExpand(st.df.shape, shape)
           /\ CanExpand(st.rank.shape, shape)
        THEN StudentT([st.log_normalizer EXCEPT !.shape = shape],
                      [st.info_vec EXCEPT !.shape = shape \o <<n>>],
                      [st.precision EXCEPT !.shape = shape \o <<n, n>>],
                      [st.df EXCEPT !.shape = shape],
                      [st.rank EXCEPT !.shape = shape])
        ELSE Raised("RuntimeError")

\* StudentT.reshape: rank = self.d_eff.reshape(batch_shape)
st_reshape(st, shape) ==
    LET n == Size1(st.info_vec)
    IN  CASE ~(/\ Numel(st.log_normalizer.shape) = Numel(shape)
               /\ Numel(st.info_vec.shape) = Numel(shape \o <<n>>)
               /\ Numel(st.precision.shape) = Numel(shape \o <<n, n>>)
               /\ Numel(st.df.shape) = Numel(shape)) -> Raised("RuntimeError")
          [] "d_eff" \notin StudentTAttributes -> Raised("AttributeError")
          [] OTHER ->
              StudentT([st.log_normalizer EXCEPT !.shape = shape],
                       [st.info_vec EXCEPT !.shape = shape \o <<n>>],
                       [st.precision EXCEPT !.shape = shape \o <<n, n>>],
                       [st.df EXCEPT !.shape = shape],
                       [st.rank EXCEPT !.shape = shape])

\* StudentT.__getitem__: rank = self.df[index]
st_getitem(st, index) ==
    IF /\ CanIndex(st.log_normalizer, index, 0)
       /\ CanIndex(st.info_vec, index, 1)
       /\ CanIndex(st.precision, index, 2)
       /\ CanIndex(st.df, index, 0)
    THEN StudentT(Indexed(st.log_normalizer, index), Indexed(st.info_vec, index),
                  Indexed(st.precision, index), Indexed(st.df, index),
                  Indexed(st.df, index))
    ELSE Raised("IndexError")

\* StudentT.cat of two parts: a negative dim reads parts[0].batch_shape
st_cat(st1, st2, d) ==
    LET d1 == IF d < 0 THEN d + Len(st_batch_shape(st1).out) ELSE d
    IN  CASE d < 0 /\ ~st_batch_shape(st1).ok -> st_batch_shape(st1)
          [] ~(/\ CanCat(st1.log_normalizer, st2.log_normalizer, d1)
               /\ CanCat(st1.info_vec, st2.info_vec, d1)
               /\ CanCat(st1.precision, st2.precision, d1)
               /\ CanCat(st1.df, st2.df, d1)
               /\ CanCat(st1.rank, st2.rank, d1)) -> Raised("RuntimeError")
          [] OTHER ->
              StudentT(Catted(st1.log_normalizer, st2.log_normalizer, d1),
                       Catted(st1.info_vec, st2.info_vec, d1),
                       Catted(st1.precision, st2.precision, d1),
                       Catted(st1.df, st2.df, d1),
                       Catted(st1.rank, st2.rank, d1))

StExpand ==
    /\ NoCalcPending
    /\ \E st \in StudentTs, shape \in TargetShapes :
         calc' = Calc("st_expand", <<st, shape>>, st_expand(st, shape))
    /\ UNCHANGED <<kernel, search, call, run, sites, pair, traj, mom>>

StReshape ==
    /\ NoCalcPending
    /\ \E st \in StudentTs, shape \in TargetShapes :
         calc' = Calc("st_reshape", <<st, shape>>, st_reshape(st, shape))
    /\ UNCHANGED <<kernel, search, call, run, sites, pair, traj, mom>>

StIndex ==
    /\ NoCalcPending
    /\ \E st \in StudentTs, index \in Indices :
         calc' = Calc("st_index", <<st, index>>, st_getitem(st, index))
    /\ UNCHANGED <<kernel, search, call, run, sites, pair, traj, mom>>

StCat ==
    /\ NoCalcPending
    /\ \E st1 \in StudentTs, st2 \in StudentTs, d \in {0 - 1, 0} :
         /\ st1.info_vec.v = st2.info_vec.v /\ st1.precision.v = st2.precision.v
         /\ st1.df.v = st2.df.v
         /\ calc' = Calc("st_cat", <<st1, st2, d>>, st_cat(st1, st2, d))
    /\ UNCHANGED <<kernel, search, call, run, sites, pair, traj, mom>>

\* AffineNormalS.__init__
AffineNormalS(matrix, loc, scale) ==
    CASE loc.shape # scale.shape -> Raised("AssertionError")
      \* x_dim, y_dim = matrix.shape[-2:] needs two sizes to unpack
      [] Rank(matrix) < 2 -> Raised("ValueError")
      [] OTHER -> Ok([matrix |-> matrix, loc |-> loc, scale |-> scale])

\* the AffineNormalS inputs of the model: a matrix of shape (x_dim, y_dim),
\* loc and scale of shape (y_dim,), every scale entry sc > 0, and matrix and
\* loc entries that are multiples of sc
MkAffineNormalS(x_dim, y_dim, s, sc) ==
    AffineNormalS(
        Matrix(<<>>, x_dim, y_dim,
               [i \in 1..x_dim |-> [j \in 1..y_dim |-> sc * SeedEntry(s, i, j)]]),
        Vector(<<>>, [j \in 1..y_dim |-> sc * SeedEntry(s, j, 0)]),
        Vector(<<>>, [j \in 1..y_dim |-> sc])).out

AffineNormals ==
    {MkAffineNormalS(x_dim, y_dim, s, sc) :
        x_dim \in 1..MaxDim, y_dim \in 1..MaxDim, s \in 0..MaxSeed, sc \in 1..2}

\* the values of Y of event size k: multiples of the scale
AffineValues(k, sc) == {Vector(<<>>, [j \in 1..k |-> sc * GVec(k, s)[j]]) : s \in 0..MaxSeed}

\* AffineNormalS.condition, for matrix, loc, scale and value without batch
\* dimensions
affine_condition(a, value) ==
    LET x_dim == Size2(a.matrix)
        y_dim == Size1(a.matrix)
        \* self.matrix / self.scale.unsqueeze(-2)
        prec_sqrt == [a.matrix EXCEPT
                         !.v = [i \in 1..x_dim |->
                                   [j \in 1..y_dim |-> @[i][j] \div a.scale.v[j]]]]
        delta == [j \in 1..y_dim |-> (value.v[j] - a.loc.v[j]) \div a.scale.v[j]]
        info_vec == Vector(<<>>, MatVec(prec_sqrt.v, delta))
        \* log(2 * pi) and scale.log() are not followed
        log_normalizer == Scalar(<<>>, Reals)
    IN  CASE Size1(value) # Size1(a.loc) -> Raised("AssertionError")
          [] Size1(a.scale) # y_dim -> Raised("RuntimeError")
          [] OTHER -> GaussianS(log_normalizer, info_vec, prec_sqrt)

AffineCondition ==
    /\ NoCalcPending
    /\ \E a \in AffineNormals, k \in 0..(MaxDim + 1) :
         \E value \in AffineValues(k, a.scale.v[1]) :
            calc' = Calc("affine_condition", <<a, value>>, affine_condition(a, value))
    /\ UNCHANGED <<kernel, search, call, run, sites, pair, traj, mom>>

\* the caller takes the result; the next call starts from no call in progress
GReturn ==
    /\ ~NoCalcPending
    /\ calc' = NoCalc
    /\ UNCHANGED <<kernel, search, call, run, sites, pair, traj, mom>>

PotentialNext ==
    \/ GExpand
    \/ GReshape
    \/ GIndex
    \/ GCat
    \/ GEventPad
    \/ GEventPermute
    \/ GAdd
    \/ GLogDensity
    \/ GCondition
    \/ GConditionLogDensity
    \/ GMarginalize
    \/ GTensordot
    \/ StCondition
    \/ StMarginalize
    \/ StExpand
    \/ StReshape
    \/ StIndex
    \/ StCat
    \/ AffineCondition
    \/ GReturn

PotentialSpec == Init /\ [][PotentialNext]_vars

----------------------------------------------------------------------------
(* Claims about the potentials.                                            *)

\* the operations that build a GaussianS from GaussianS inputs
ShapeOps == {"expand", "reshape", "index", "cat", "event_pad", "add",
             "condition", "marginalize"}

\* the call in progress passes the assertions its own method makes on its
\* arguments (gaussian_sqrt.py:117 and :155)
ArgsAccepted ==
    CASE calc.op = "add" -> dim(calc.args[1]) = dim(calc.args[2])
      [] calc.op = "condition" -> Size1(calc.args[2]) <= dim(calc.args[1])
      [] OTHER -> TRUE

(* C13: every GaussianS that expand, reshape, index, cat, event_pad, add,  *)
(* condition or marginalize produce from valid inputs satisfies the        *)
(* instance invariants, and the constructor's shape assertions never fail  *)
(* on the result of such an operation.                                     *)
C13_InvariantsKept ==
    (calc.op \in ShapeOps /\ ArgsAccepted) =>
        /\ calc.res.ok => IsValidGaussianS(calc.res.out)
        /\ calc.res.err # "AssertionError"

\* twice -1/2 * v^T P v + v^T info_vec + log_normalizer, P = g.precision
QuadraticLogDensity(g, value) ==
    0 - Dot(value.v, MatVec(precision(g), value.v))
      + 2 * Dot(value.v, g.info_vec.v) + g.log_normalizer.v

(* C14: g.log_density(v) equals -1/2 v^T P v + v^T info_vec +              *)
(* log_normalizer with P = prec_sqrt @ prec_sqrt^T for every value v of    *)
(* event size g.dim(), and log_normalizer for a zero-dimensional value.    *)
C14_LogDensityIsQuadratic ==
    calc.op = "log_density" =>
        /\ calc.res.ok
        /\ calc.res.out = IF Size1(calc.args[2]) = 0
                          THEN calc.args[1].log_normalizer.v
                          ELSE QuadraticLogDensity(calc.args[1], calc.args[2])

(* C15: condition round-trip: for every GaussianS g, split point k with    *)
(* 0 <= k <= g.dim() and x, g.condition(x[..., k:]).log_density(x[..., :k]) *)
(* equals g.log_density(x).                                                *)
C15_ConditionRoundTrip ==
    calc.op = "condition_log_density" =>
        /\ calc.res.ok
        /\ calc.res = log_density(calc.args[1], calc.args[2])

(* C16: additivity: for GaussianS g1, g2 with equal dim(), g1 + g2 is a    *)
(* GaussianS whose log_density(x) is g1.log_density(x) + g2.log_density(x) *)
(* for every x, and the outer product of its square-root factor is the sum *)
(* of the two precisions.                                                  *)
C16_Additivity ==
    (calc.op = "add" /\ dim(calc.args[1]) = dim(calc.args[2])) =>
        /\ calc.res.ok
        /\ IsValidGaussianS(calc.res.out)
        /\ precision(calc.res.out) =
              [i \in 1..dim(calc.args[1]) |->
                  [j \in 1..dim(calc.args[1]) |->
                      precision(calc.args[1])[i][j] + precision(calc.args[2])[i][j]]]
        /\ calc.args[1].log_normalizer.shape = <<>> =>
              \A x \in Values(dim(calc.args[1])) :
                  log_density(calc.res.out, x).out =
                      log_density(calc.args[1], x).out + log_density(calc.args[2], x).out

(* C17: gaussian_tensordotS(x, y, dims) with 0 <= dims <= min(x.dim(),     *)
(* y.dim()) returns a GaussianS over the uncontracted variables, of dim    *)
(* x.dim() + y.dim() - 2 * dims.                                           *)
C17_TensordotReturns ==
    (/\ calc.op = "tensordot"
     /\ calc.args[3] <= dim(calc.args[1])
     /\ calc.args[3] <= dim(calc.args[2])) =>
        /\ calc.res.ok
        /\ IsValidGaussianS(calc.res.out)
        /\ dim(calc.res.out) = dim(calc.args[1]) + dim(calc.args[2]) - 2 * calc.args[3]

(* C18: the unimplemented branches raise and return nothing: marginalize  *)
(* with left > 0 and right > 0 raises NotImplementedError on GaussianS and *)
(* on StudentT, and GaussianS.event_permute raises NotImplementedError for *)
(* every permutation.                                                      *)
C18_NotSupportedRaises ==
    /\ (/\ calc.op \in {"marginalize", "st_marginalize"}
        /\ calc.args[2] > 0
        /\ calc.args[3] > 0) =>
            ~calc.res.ok /\ calc.res.err = "NotImplementedError"
    /\ calc.op = "event_permute" =>
            ~calc.res.ok /\ calc.res.err = "NotImplementedError"

\* marginalize has been called on a GaussianS of dim >= 2 with both sides
\* positive and has raised
C18_Witness ==
    /\ calc.op = "marginalize"
    /\ dim(calc.args[1]) >= 2
    /\ calc.args[2] > 0
    /\ calc.args[3] > 0
    /\ calc.res.err = "NotImplementedError"

(* C19: for a GaussianS g of dim n and a value of trailing size k <= n,    *)
(* g.condition(value) returns a GaussianS with dim() = n - k; for k > n    *)
(* the call fails its precondition check and returns nothing.              *)
C19_ConditionDim ==
    calc.op = "condition" =>
        IF Size1(calc.args[2]) <= dim(calc.args[1])
        THEN /\ calc.res.ok
             /\ IsValidGaussianS(calc.res.out)
             /\ dim(calc.res.out) = dim(calc.args[1]) - Size1(calc.args[2])
        ELSE ~calc.res.ok /\ calc.res.err = "AssertionError"

(* C20: StudentT.condition(value) on a potential with dim n, degrees of    *)
(* freedom df and rank r, for a value of trailing size k <= n, returns a   *)
(* StudentT with dim n - k, degrees of freedom df + k and rank r - k.      *)
C20_StudentTCondition ==
    (calc.op = "st_condition" /\ Size1(calc.args[2]) <= Size1(calc.args[1].info_vec)) =>
        /\ calc.res.ok
        /\ Size1(calc.res.out.info_vec) =
              Size1(calc.args[1].info_vec) - Size1(calc.args[2])
        /\ calc.res.out.df.v = calc.args[1].df.v + Size1(calc.args[2])
        /\ calc.res.out.rank.v = calc.args[1].rank.v - Size1(calc.args[2])

----------------------------------------------------------------------------
(* Further properties of the kernel *)

\* the position of a step size in the float format: 0.0 below every 2^e,
\* +infinity above
StepRank(step) ==
    CASE step.kind = "zero" -> 0 - FloatMaxExp - 1
      [] step.kind = "inf" -> FloatMaxExp + 1
      [] OTHER -> step.e

\* b is the float product of a and 2 ** direction
IsScaled(a, b, direction) ==
    IF a.kind = "fin" THEN StepRank(b) = StepRank(a) + direction ELSE b = a

\* the directions one trial of the search at the given step size can give
TrialDirections(k, step_size) ==
    UNION { {Direction(TrialDelta(k.initial_params, r, prop)) :
                prop \in velocity_verlet(k.initial_params, r, step_size)}
            : r \in Momenta }

\* a NaN delta_energy counts as decrease; otherwise increase iff
\* -delta_energy > log(0.8), which for integer energies is delta_energy <= 0
DirectionRule(delta_energy) ==
    Direction(delta_energy) =
        IF /\ ~torch_isnan(delta_energy)
           /\ \/ delta_energy.kind = "ninf"
              \/ delta_energy.kind = "fin" /\ delta_energy.v <= 0
        THEN 1 ELSE 0 - 1

(* C21: the step-size search fixes its direction from the first one-step   *)
(* trial (increase if -delta_energy > log(0.8), otherwise decrease, NaN    *)
(* included), then multiplies the step size by 2 or by 1/2 once per        *)
(* iteration, drawing a fresh momentum each time, and stops at the first   *)
(* iteration whose direction differs; the value returned is the initial    *)
(* step size scaled at least once in the fixed direction, never the        *)
(* initial step size itself.                                               *)
C21_SearchScales ==
    [][ /\ search.pc = "first" /\ search'.pc = "loop" =>
            /\ search'.step_size = kernel.adapter.step_size
            /\ search'.direction \in TrialDirections(kernel, search.step_size)
            /\ \A r \in Momenta :
                 \A prop \in velocity_verlet(kernel.initial_params, r, search.step_size) :
                    DirectionRule(TrialDelta(kernel.initial_params, r, prop))
            /\ sites' = <<"r_presample">>
        /\ search.pc = "loop" /\ search'.pc = "loop" =>
            /\ IsScaled(search.step_size, search'.step_size, search.direction)
            /\ search'.direction = search.direction
            /\ search.direction \in TrialDirections(kernel, search'.step_size)
            /\ sites' = <<"r_presample">>
        /\ search.pc = "loop" /\ search'.pc = "idle" =>
            /\ IsScaled(search.step_size, kernel'.adapter.step_size, search.direction)
            /\ (0 - search.direction) \in TrialDirections(kernel, kernel'.adapter.step_size)
            /\ (StepRank(kernel'.adapter.step_size) - StepRank(kernel.adapter.step_size))
                  * search.direction >= 1
            /\ kernel'.adapter.step_size # kernel.adapter.step_size
            /\ sites' = <<"r_presample">> ]_vars

\* a search from step size 1.0 has returned 0.5: one halving
C21_Witness ==
    /\ call.op = "setup" /\ call.done /\ ~call.raised
    /\ search.pc = "idle"
    /\ sites = <<"r_presample">>
    /\ kernel.adapter.step_size = StepFin(0 - 1)

\* the states the integrator can propose in a sample(params) call on k
ProposedStates(k, params) ==
    UNION { {prop.z : prop \in velocity_verlet(StartOf(k, params), r, k.adapter.step_size)}
            : r \in Momenta }

(* C22: cache discipline of sample(): on accept the cache becomes the      *)
(* proposal's state, potential energy and gradient and accept_count grows  *)
(* by 1; on reject the cached triple and accept_count are unchanged; a     *)
(* cache that is empty on entry is first filled with params, its potential *)
(* energy and no gradient; the state returned by a sample() on a non-empty *)
(* parameter space is the cached state.                                    *)
C22_CacheDiscipline ==
    [][ /\ IsFullSample /\ call'.accepted =>
            /\ call'.ret \in ProposedStates(kernel, call'.params)
            /\ CacheOf(kernel') =
                  <<call'.ret, potential_fn(call'.ret), Some(call'.ret.v)>>
            /\ kernel'.accept_cnt = kernel.accept_cnt + 1
        /\ IsFullSample /\ ~call'.accepted =>
            /\ CacheOf(kernel') = CacheOf(RefillCache(kernel, call'.params))
            /\ kernel'.accept_cnt = kernel.accept_cnt
        /\ IsSample /\ IsNone(kernel.z_last) /\ kernel.potential_fn /\ ~call'.accepted =>
            CacheOf(kernel') = <<call'.params, potential_fn(call'.params), None>>
        /\ IsFullSample => call'.ret = kernel'.z_last ]_vars

\* a sample() call that found the cache as the previous accepted step left
\* it, and accepted again
C22_Witness ==
    /\ call.op = "sample" /\ ~call.raised /\ ~call.early /\ call.accepted
    /\ kernel.accept_cnt = 2
    /\ kernel.z_last = call.ret
    /\ kernel.z_grads_last = Some(call.ret.v)

----------------------------------------------------------------------------
(* The number of leapfrog steps.  Trajectory lengths and step sizes are    *)
(* floats kept in thousandths; the values of the model are multiples of a  *)
(* quarter, and 2 * math.pi.                                               *)

\* 2 * math.pi, in thousandths
TwoPi == 6283

\* k quarters, in thousandths
Quarters(k) == 250 * k

\* the step sizes given to the constructor and set by the adapter
StepSizes == {Quarters(k) : k \in 1..MaxStepQ}

\* the trajectory_length and num_steps arguments of the constructor
LengthArgs == {None} \cup {Some(Quarters(k)) : k \in 0..MaxLengthQ}
NumStepsArgs == {None} \cup {Some(n) : n \in 1..MaxNumSteps}

\* HMC.__init__: self.trajectory_length
trajectory_length(length_arg, num_steps_arg, step_size) ==
    CASE ~IsNone(length_arg) -> length_arg.v
      [] ~IsNone(num_steps_arg) -> step_size * num_steps_arg.v
      [] OTHER -> TwoPi

\* the property, were it int(self.trajectory_length / self.step_size)
num_steps_unclamped(length, step_size) == length \div step_size

\* HMC.num_steps: max(1, int(self.trajectory_length / self.step_size)); the
\* quotient is not negative, where int() is the floor
num_steps(length, step_size) == MaxOf(1, length \div step_size)

\* HMC(..., step_size=..., trajectory_length=..., num_steps=...)
TrajConstruct ==
    /\ traj.op = "none"
    /\ \E length_arg \in LengthArgs, num_steps_arg \in NumStepsArgs,
          step_size \in StepSizes :
         traj' = [ op |-> "init",
                   given |-> <<length_arg, num_steps_arg, step_size>>,
                   trajectory_length |->
                       trajectory_length(length_arg, num_steps_arg, step_size),
                   step_size |-> step_size,
                   num_steps |-> 0 ]
    /\ UNCHANGED <<kernel, search, call, run, sites, pair, calc, mom>>

\* the adapter sets its step size (the search at setup(), dual averaging)
TrajAdapt ==
    /\ traj.op # "none"
    /\ \E step_size \in StepSizes :
         traj' = [traj EXCEPT !.op = "adapt", !.step_size = step_size]
    /\ UNCHANGED <<kernel, search, call, run, sites, pair, calc, mom>>

\* self.num_steps is read, as sample() does
TrajNumSteps ==
    /\ traj.op # "none"
    /\ traj' = [traj EXCEPT !.op = "num_steps",
                            !.num_steps = num_steps(traj.trajectory_length,
                                                    traj.step_size)]
    /\ UNCHANGED <<kernel, search, call, run, sites, pair, calc, mom>>

TrajNext ==
    \/ TrajConstruct
    \/ TrajAdapt
    \/ TrajNumSteps

TrajSpec == Init /\ [][TrajNext]_vars

----------------------------------------------------------------------------
(* The momentum.  A parameter state is a dict: a sequence of items         *)
(* <<name, shape>> in insertion order, with distinct names.  The momentum  *)
(* is a dict of items <<name, shape, values>>, the values of a tensor in   *)
(* row-major order.                                                        *)

\* site names, in the order of Python's string comparison
Alphabet == <<"a", "b", "c", "d">>

SiteNames == {Alphabet[i] : i \in 1..MaxSites}

NameRank(name) == CHOOSE i \in 1..Len(Alphabet) : Alphabet[i] = name

\* the shapes of the sites: a scalar, a vector, a matrix of one row
SiteShapes == {<<>>, <<MaxSiteSize>>, <<1, MaxSiteSize>>}

\* the parameter states initial_params can hold
ParamDicts ==
    { d \in UNION {[1..n -> SiteNames \X SiteShapes] : n \in 0..MaxSites} :
        \A i, j \in 1..Len(d) : d[i][1] = d[j][1] => i = j }

\* sum([p.numel() for p in params.values()]): the size of r_dist
MassMatrixSize(params) == SumSeq([i \in 1..Len(params) |-> Numel(params[i][2])])

\* the items, were they left in insertion order
UnsortedItems(items) == items

\* sorted(items): by name
SortedItems(items) ==
    [i \in 1..Len(items) |->
        CHOOSE it \in {items[j] : j \in 1..Len(items)} :
            Cardinality({j \in 1..Len(items) :
                            NameRank(items[j][1]) < NameRank(it[1])}) = i - 1]

\* pos at the item of the given index of sorted(params.items())
RECURSIVE PosAt(_, _)
PosAt(items, i) == IF i <= 1 THEN 0 ELSE PosAt(items, i - 1) + Numel(items[i - 1][2])

\* HMC._sample_r, given the flat draw r_flat
_sample_r(params, r_flat) ==
    LET items == SortedItems(params)
        pos == PosAt(items, Len(items) + 1)
    IN  CASE pos > Len(r_flat) -> Raised("RuntimeError")    \* reshape of a short slice
          [] pos # Len(r_flat) -> Raised("AssertionError")
          [] OTHER ->
              Ok([i \in 1..Len(items) |->
                    <<items[i][1], items[i][2],
                      SubSeq(r_flat, PosAt(items, i) + 1, PosAt(items, i + 1))>>])

\* r_flat of _kinetic_energy:
\* torch.cat([r[site_name].reshape(-1) for site_name in sorted(r)])
RECURSIVE CatValues(_)
CatValues(items) ==
    IF items = <<>> THEN <<>> ELSE Head(items)[3] \o CatValues(Tail(items))

FlatOf(r) == CatValues(SortedItems(r))

\* the flat draws of size n, and of one element more
FlatDraws(n) == {[i \in 1..n |-> i], [i \in 1..n |-> n + 1 - i], [i \in 1..(n + 1) |-> i]}

\* _sample_r(name) on a kernel whose initial_params is params
SampleR ==
    /\ mom.op = "none"
    /\ \E params \in ParamDicts :
         \E r_flat \in FlatDraws(MassMatrixSize(params)) :
            mom' = [ op |-> "_sample_r", params |-> params, r_flat |-> r_flat,
                     res |-> _sample_r(params, r_flat) ]
    /\ UNCHANGED <<kernel, search, call, run, sites, pair, calc, traj>>

\* the step is over: the momentum is dropped
DropR ==
    /\ mom.op # "none"
    /\ mom' = NoMomentum
    /\ UNCHANGED <<kernel, search, call, run, sites, pair, calc, traj>>

MomentumNext ==
    \/ SampleR
    \/ DropR

MomentumSpec == Init /\ [][MomentumNext]_vars

\* the number of elements of the sites whose name sorts before the given one
ElementsBefore(params, name) ==
    SumSeq([j \in 1..Len(params) |->
              IF NameRank(params[j][1]) < NameRank(name)
              THEN Numel(params[j][2]) ELSE 0])

(* C26: the momentum r built by _sample_r has the key set and the per-site *)
(* shapes of the parameter state; the flat draw is split into contiguous,  *)
(* non-overlapping slices in sorted-site-name order that cover the whole   *)
(* flat vector, and flattening r in sorted-name order gives back the flat  *)
(* draw.                                                                   *)
C26_MomentumStructure ==
    (mom.op = "_sample_r" /\ Len(mom.r_flat) = MassMatrixSize(mom.params)) =>
        /\ mom.res.ok
        /\ {<<it[1], it[2]>> : it \in {mom.res.out[i] : i \in 1..Len(mom.res.out)}}
              = {mom.params[i] : i \in 1..Len(mom.params)}
        /\ Len(mom.res.out) = Len(mom.params)
        /\ \A i \in 1..Len(mom.res.out) :
              mom.res.out[i][3] =
                  SubSeq(mom.r_flat,
                         ElementsBefore(mom.params, mom.res.out[i][1]) + 1,
                         ElementsBefore(mom.params, mom.res.out[i][1])
                             + Numel(mom.res.out[i][2]))
        /\ FlatOf(mom.res.out) = mom.r_flat

\* a momentum was built for a parameter state whose first inserted site
\* sorts after its second and has another size
C26_Witness ==
    /\ mom.op = "_sample_r" /\ mom.res.ok
    /\ Len(mom.params) >= 2
    /\ NameRank(mom.params[1][1]) > NameRank(mom.params[2][1])
    /\ Numel(mom.params[1][2]) # Numel(mom.params[2][2])
    /\ mom.r_flat[1] # 1

----------------------------------------------------------------------------
(* Further claims about the potentials *)

\* the precision P flanked by left and right all-zero rows and columns
PaddedPrecision(P, n, left, right) ==
    [i \in 1..(n + left + right) |->
        [j \in 1..(n + left + right) |->
            IF i > left /\ i <= left + n /\ j > left /\ j <= left + n
            THEN P[i - left][j - left] ELSE 0]]

(* C24: event_pad(left, right) returns a GaussianS with dim() = n + left   *)
(* + right whose info_vec is the original flanked by left and right zeros, *)
(* whose precision has all-zero rows and columns at the padded positions   *)
(* and the original precision in the middle block, and whose               *)
(* log_normalizer is unchanged.                                            *)
C24_EventPad ==
    calc.op = "event_pad" =>
        /\ calc.res.ok
        /\ dim(calc.res.out) = dim(calc.args[1]) + calc.args[2] + calc.args[3]
        /\ calc.res.out.info_vec.v =
              Zeros(calc.args[2]) \o calc.args[1].info_vec.v \o Zeros(calc.args[3])
        /\ precision(calc.res.out) =
              PaddedPrecision(precision(calc.args[1]), dim(calc.args[1]),
                              calc.args[2], calc.args[3])
        /\ calc.res.out.log_normalizer = calc.args[1].log_normalizer

(* C25: marginalize(0, 0) returns the receiver unchanged; with exactly one *)
(* of left, right equal to k, 0 < k <= n, and the other 0 it returns a     *)
(* GaussianS over the kept n - k variables, so the result's dim() is n - k. *)
C25_MarginalizeDim ==
    (/\ calc.op = "marginalize"
     /\ calc.args[2] = 0 \/ calc.args[3] = 0
     /\ calc.args[2] + calc.args[3] <= dim(calc.args[1])) =>
        /\ calc.res.ok
        /\ calc.args[2] + calc.args[3] = 0 => calc.res.out = calc.args[1]
        /\ dim(calc.res.out) = dim(calc.args[1]) - calc.args[2] - calc.args[3]

\* the batch operations of StudentT
StudentTBatchOps == {"st_expand", "st_reshape", "st_index", "st_cat"}

(* C27: the batch operations of StudentT (expand, reshape, index, cat)     *)
(* change batch dimensions only: the result's event dimension is the       *)
(* input's, and each of info_vec, precision, df and rank holds the batch   *)
(* elements of the same field of the input; in particular the result's     *)
(* rank comes from the input's rank and its df from the input's df.        *)
C27_StudentTBatchOps ==
    (/\ calc.op \in StudentTBatchOps
     /\ calc.res.err \notin {"RuntimeError", "IndexError"}) =>
        /\ calc.res.ok
        /\ Size1(calc.res.out.info_vec) = Size1(calc.args[1].info_vec)
        /\ calc.res.out.info_vec.v = calc.args[1].info_vec.v
        /\ calc.res.out.precision.v = calc.args[1].precision.v
        /\ calc.res.out.df.v = calc.args[1].df.v
        /\ calc.res.out.rank.v = calc.args[1].rank.v

(* C28: for a matrix of rightmost shape (x_dim, y_dim), x_dim, y_dim >= 1, *)
(* and loc, scale of rightmost shape (y_dim,),                             *)
(* AffineNormalS(matrix, loc, scale).condition(y) returns, for a value y   *)
(* of trailing size y_dim, a valid GaussianS over X with dim() = x_dim; a  *)
(* value of any other trailing size fails a precondition check.            *)
C28_AffineCondition ==
    calc.op = "affine_condition" =>
        IF Size1(calc.args[2]) = Size1(calc.args[1].matrix)
        THEN /\ calc.res.ok
             /\ IsValidGaussianS(calc.res.out)
             /\ dim(calc.res.out) = Size2(calc.args[1].matrix)
        ELSE ~calc.res.ok /\ calc.res.err = "AssertionError"

----------------------------------------------------------------------------
(* The params argument of sample() *)

\* the values a caller can pass as params
AnyParams == Positions \cup {EmptyZ}

\* the cache holds a state with at least one site
CacheHoldsSites(k) == ~IsNone(k.z_last) /\ NumSites(k.z_last) > 0

(* C29: in every state of the kernel a call was last made on, if the cache *)
(* holds a state with at least one site, sample(params) does not depend on *)
(* params: with the same draws, a call with any params starts its          *)
(* trajectory from the cached state and has the returned state, counters   *)
(* and cache of the call with the cached state as params.  params is the   *)
(* starting state only when the cache is empty on entry.                   *)
C29_ParamsIgnored ==
    \A i \in Kernels :
        pair.who = i /\ pair.k[i].exists =>
            LET k == pair.k[i]
            IN  /\ CacheHoldsSites(k) =>
                      \A r \in Momenta, u \in Uniforms :
                         \A prop \in velocity_verlet(k.z_last, r, k.adapter.step_size) :
                            LET res == sample(k, k.z_last, r, prop, u)
                            IN  \A other \in AnyParams \ {k.z_last} :
                                   /\ StartOf(k, other) = k.z_last
                                   /\ sample(k, other, r, prop, u) = res
                /\ IsNone(k.z_last) /\ k.potential_fn =>
                      \A other \in AnyParams : StartOf(k, other) = other

\* two sample() calls on a populated cache have returned, both rejecting,
\* and the next call finds a cached state with a site
C29_Witness ==
    \E i \in Kernels :
        /\ pair.who = i /\ pair.op = "sample"
        /\ pair.k[i].t = 2 /\ pair.k[i].accept_cnt = 0
        /\ CacheHoldsSites(pair.k[i])

----------------------------------------------------------------------------
(* The counters across runs *)

\* t, accept count and divergence count
CountersOf(k) == <<k.t, k.accept_cnt, k.num_diverging>>

\* the state _reset() leaves: counters at 0, no cache, no initial
\* parameters, no warm-up step count
IsReset(k) ==
    /\ CountersOf(k) = <<0, 0, 0>>
    /\ CacheOf(k) = <<None, NoneE, None>>
    /\ IsNone(k.initial_params)
    /\ IsNone(k.warmup_steps)

(* C30: construction and cleanup() reset t, accept count and divergence    *)
(* count to 0 and clear the cache, the initial parameters and the warm-up  *)
(* step count, and no other call does: setup(), sample() and clear_cache() *)
(* never lower a counter and never clear the initial parameters or the     *)
(* warm-up step count.  setup() overwrites the warm-up step count and the  *)
(* cache and leaves the three counters unchanged, so a setup() without a   *)
(* preceding cleanup() continues from the previous run's counters.         *)
C30_ResetOnlyByCleanup ==
    [][ \A i \in Kernels :
          pair'.who = i =>
            LET k == pair.k[i]
                kn == pair'.k[i]
            IN  /\ pair'.op \in {"init", "cleanup"} => IsReset(kn)
                /\ pair'.op \in {"setup", "sample", "clear_cache"} =>
                      /\ kn.t >= k.t
                      /\ kn.accept_cnt >= k.accept_cnt
                      /\ kn.num_diverging >= k.num_diverging
                      /\ ~IsNone(k.initial_params) => kn.initial_params = k.initial_params
                      /\ ~IsNone(k.warmup_steps) => ~IsNone(kn.warmup_steps)
                /\ pair'.op = "setup" =>
                      /\ CountersOf(kn) = CountersOf(k)
                      /\ ~IsNone(kn.warmup_steps)
                      /\ CacheOf(kn) =
                            <<kn.initial_params, potential_fn(kn.initial_params), None>> ]_vars

\* a setup() on a kernel that has sampled and was not cleaned up: the new
\* run starts with the counters of the previous one
C30_Witness ==
    \E i \in Kernels :
        /\ pair.who = i /\ pair.op = "setup"
        /\ pair.k[i].t = 2 /\ pair.k[i].accept_cnt = 1
        /\ pair.k[i].num_diverging = 1

============================================================================
